---- MODULE Spec2Model ----
(***************************************************************************)
(* picoflow: one run of TaskScheduler::execute_workflow over the state     *)
(* store (src/src/scheduler.rs, src/src/state.rs, src/src/dag.rs,          *)
(* src/src/retry.rs).                                                      *)
(*                                                                         *)
(* The store tables are the variables workflows, executions and            *)
(* task_executions; task_executions is kept as one insertion-ordered row   *)
(* sequence per task name, and a row id is the pair (task name, position). *)
(* Every store write is one atomic step (the connection mutex) and may     *)
(* fail with a Sqlite error, at most MaxStoreErrors times per run.         *)
(*                                                                         *)
(* Specifications:                                                         *)
(*   Spec          one run of execute_workflow                             *)
(*   SpecParallel  one run of execute_workflow by levels, every store      *)
(*                 write succeeding                                        *)
(*   SpecParallelFair  SpecParallel under fair scheduling                  *)
(*   SpecBackoff   calculate_backoff_delay and RetryState::calculate_delay *)
(*                 on attempt numbers (src/src/retry.rs)                   *)
(*   SpecDag       DagEngine::build, topological_sort and parallel_levels  *)
(*                 on task lists (src/src/dag.rs)                          *)
(*   SpecStore     the store under any sequence of its writes and of       *)
(*                 recover_from_crash (src/src/state.rs)                   *)
(*   SpecWorkflows get_or_create_workflow called again and again           *)
(*   SpecDaemon    `daemon start` in several processes and `daemon stop`   *)
(*                 on one PID file (src/src/daemon.rs)                     *)
(*   SpecDaemonFair  SpecDaemon with stop_daemon running to its return     *)
(*   SpecDaemonCron  `daemon start` in two processes whose cron jobs fire  *)
(*   SpecCron      CronScheduler::add_workflow (src/src/cron_scheduler.rs) *)
(*   SpecOutput    truncate_output_bytes on raw output                     *)
(*                 (src/src/executors/mod.rs)                              *)
(*   SpecSummaries list_workflows over a store that is written to          *)
(*   SpecRuns      `run` commands in several processes on one store        *)
(*                 (src/src/cli.rs)                                        *)
(***************************************************************************)
EXTENDS Integers, Sequences, FiniteSets, TLC

VARIABLES
    config,            \* the WorkflowConfig handed to execute_workflow
    workflows,         \* table workflows
    executions,        \* table executions
    task_executions,   \* table task_executions, per task name
    pc,                \* position of execute_workflow
    ret,               \* what execute_workflow returned
    workflow_id,       \* local workflow_id (0 before get_or_create_workflow)
    execution_id,      \* local execution_id (0 before start_execution)
    cursor,            \* index into execution_order / parallel_levels
    workflow_success,  \* local workflow_success
    failed_tasks,      \* local failed_tasks of execute_parallel
    act,               \* per task: the execute_task_with_retry activity
    permits,           \* available permits of the semaphore
    store_errors,      \* store writes that have failed so far
    slept,             \* per task: the delays its retry loop has slept
    outcomes,          \* per task: what the executor call of each attempt did
    pid_file,          \* the daemon's PID file: absent, or the PID it holds
    daemon,            \* per process: a `daemon start` command and its Daemon
    stop,              \* the `daemon stop` command: position and locals of stop_daemon
    jobs,              \* the jobs registered with the cron JobScheduler
    commands           \* per process: a `run` command, its position and locals

vars == <<config, workflows, executions, task_executions, pc, ret, workflow_id,
          execution_id, cursor, workflow_success, failed_tasks, act, permits, store_errors,
          slept, outcomes, pid_file, daemon, stop, jobs, commands>>

daemon_vars == <<pid_file, daemon, stop, jobs, commands>>

-----------------------------------------------------------------------------
(* Bounds of the model *)

MaxLongRetries == 7

MaxParallel == 2

MaxStoreErrors == 1

\* The 100 ms sleeps that fit into the timeout of stop_daemon.
MaxPolls == 2

\* The attempt numbers calculate_backoff_delay is called with.
MaxAttempt == 66

(* Program constants *)

DefaultRetries == 3

BaseDelaySecs == 1

\* The width of the u64 the delay is computed in.
U64Bits == 64

MaxDelaySecs == 60

-----------------------------------------------------------------------------
(* Values *)

TaskList == <<"a", "b", "c">>

TaskNames == {TaskList[i] : i \in DOMAIN TaskList}

\* A name that no task of a workflow carries.
Unknown == "zz"

None == "none"

NULL == "null"

Now == "now"

Terminal == {"success", "failed", "timeout"}

\* What one executor call under the per-attempt timeout can do: return a
\* result with status success or failed, return an error, or time out.
Outcomes == {"success", "failed", "error", "timeout"}

\* The processes that `daemon start` is run in, by PID.
Pids == {"p1", "p2", "p3"}

\* The PID file does not exist.
NoFile == "no_file"

\* A process in which `daemon start` has not been run.
NotStarted ==
    [pc |-> "none", found |-> NoFile, found_live |-> FALSE, signalled |-> FALSE]

\* `daemon stop` has not been run.
NotStopping ==
    [pc |-> "none", pid |-> <<>>, sent |-> <<>>, polls |-> 0, clean |-> FALSE,
     result |-> None]

\* The processes that `run` is run in.
Commands == {"r1", "r2", "r3"}

\* A process in which `run` has not been run.
NotRun ==
    [pc |-> "none", crashed |-> {}, workflow_id |-> 0, execution_id |-> 0]

Range(s) == {s[i] : i \in DOMAIN s}

Last(s) == s[Len(s)]

RECURSIVE Reverse(_)
Reverse(s) == IF s = <<>> THEN <<>> ELSE Append(Reverse(Tail(s)), Head(s))

RECURSIVE SetMax(_)
SetMax(S) ==
    IF S = {} THEN 0
    ELSE LET x == CHOOSE y \in S : TRUE
             m == SetMax(S \ {x})
         IN IF x > m THEN x ELSE m

Min(a, b) == IF a < b THEN a ELSE b

RECURSIVE Pow2(_)
Pow2(e) == IF e = 0 THEN 1 ELSE 2 * Pow2(e - 1)

-----------------------------------------------------------------------------
(* retry.rs *)

\* The largest power of two the model writes out; it stands for every u64
\* above it, each of which is above every delay cap.
Huge == Pow2(30)

\* 2u64.pow(exp) overflows: 2^exp needs more than the 64 bits of a u64.
pow_overflows(exp) == exp >= U64Bits

\* 2u64.pow(exp) built without overflow checks: 2^exp modulo 2^64, which is
\* 0 from exp = 64 on.
wrapping_pow2(exp) == IF pow_overflows(exp) THEN 0 ELSE Pow2(Min(exp, 30))

\* 2u64.saturating_pow(exp): u64::MAX from exp = 64 on.
saturating_pow2(exp) == IF pow_overflows(exp) THEN Huge ELSE Pow2(Min(exp, 30))

\* RetryConfig::default_config()
default_config == [max_retries |-> DefaultRetries, base_delay |-> BaseDelaySecs,
                   max_delay |-> MaxDelaySecs]

\* RetryState::calculate_delay: base_delay.saturating_mul(
\* 2u64.saturating_pow(retry_count)).min(max_delay)
calculate_delay(cfg, retry_count) ==
    LET exponential_delay == cfg.base_delay * saturating_pow2(retry_count)
    IN Min(exponential_delay, cfg.max_delay)

\* Mutant: the exponent is the attempt number itself.
calculate_backoff_delay_pow_attempt(attempt) ==
    Min(BaseDelaySecs * wrapping_pow2(attempt), MaxDelaySecs)

\* 2u64.pow(attempt.saturating_sub(1)), times the base delay, capped at 60;
\* the value of a build without overflow checks.
calculate_backoff_delay(attempt) ==
    LET base_delay_secs == BaseDelaySecs
        delay_secs == base_delay_secs *
                          wrapping_pow2(IF attempt >= 1 THEN attempt - 1 ELSE 0)
    IN Min(delay_secs, MaxDelaySecs)

-----------------------------------------------------------------------------
(* dag.rs: the graph of a task list *)

\* neighbors(node): the tasks that name `node` in depends_on, in list order.
Successors(cfg, node) ==
    SelectSeq(cfg.tasks, LAMBDA t : node \in cfg.depends_on[t])

RECURSIVE dfs_visit(_, _, _), dfs_visit_all(_, _, _)
dfs_visit(cfg, node, finished) ==
    IF node \in Range(finished) THEN finished
    ELSE Append(dfs_visit_all(cfg, Successors(cfg, node), finished), node)
dfs_visit_all(cfg, nodes, finished) ==
    IF nodes = <<>> THEN finished
    ELSE dfs_visit_all(cfg, Tail(nodes), dfs_visit(cfg, Head(nodes), finished))

\* Mutant: the finish order is not reversed.
topological_sort_not_reversed(cfg) ==
    dfs_visit_all(cfg, Reverse(cfg.tasks), <<>>)

\* toposort: nodes in reverse index order, depth first, reverse post-order.
topological_sort(cfg) ==
    Reverse(dfs_visit_all(cfg, Reverse(cfg.tasks), <<>>))

RECURSIVE calculate_node_level(_, _)

\* Mutant: the level of a node is the largest parent level, without the + 1.
calculate_node_level_no_increment(cfg, node) ==
    SetMax({calculate_node_level(cfg, parent) : parent \in cfg.depends_on[node]})

calculate_node_level(cfg, node) ==
    SetMax({calculate_node_level(cfg, parent) + 1 : parent \in cfg.depends_on[node]})

\* Mutant: the deepest level is dropped.
parallel_levels_one_short(cfg) ==
    LET top == SetMax({calculate_node_level(cfg, t) : t \in Range(cfg.tasks)})
    IN [l \in 1..top |->
           SelectSeq(cfg.tasks, LAMBDA t : calculate_node_level(cfg, t) = l - 1)]

\* levels grows to the deepest node level; no node, no level.
parallel_levels(cfg) ==
    LET top == SetMax({calculate_node_level(cfg, t) : t \in Range(cfg.tasks)})
    IN IF cfg.tasks = <<>> THEN <<>>
       ELSE [l \in 1..(top + 1) |->
                SelectSeq(cfg.tasks, LAMBDA t : calculate_node_level(cfg, t) = l - 1)]

-----------------------------------------------------------------------------
(* state.rs: the writes, as functions on the tables *)

\* Mutant: an existing row keeps the schedule it has.
get_or_create_workflow_keeps_schedule(wfs, name, schedule) ==
    IF \E i \in DOMAIN wfs : wfs[i].name = name
    THEN [table |-> wfs, id |-> CHOOSE i \in DOMAIN wfs : wfs[i].name = name]
    ELSE [table |-> Append(wfs, [name |-> name, schedule |-> schedule]),
          id |-> Len(wfs) + 1]

get_or_create_workflow(wfs, name, schedule) ==
    IF \E i \in DOMAIN wfs : wfs[i].name = name
    THEN LET id == CHOOSE i \in DOMAIN wfs : wfs[i].name = name
         IN [table |-> [wfs EXCEPT ![id].schedule = schedule], id |-> id]
    ELSE [table |-> Append(wfs, [name |-> name, schedule |-> schedule]),
          id |-> Len(wfs) + 1]

start_execution(execs, wf_id) ==
    Append(execs, [workflow_id |-> wf_id, status |-> "running",
                   completed_at |-> NULL])

update_execution_status(execs, id, status) ==
    [execs EXCEPT ![id].status = status,
                  ![id].completed_at = IF status \in Terminal THEN Now ELSE NULL]

\* retry_count is not among the inserted columns: it takes the column default.
start_task(rows, exec_id, attempt) ==
    Append(rows, [execution_id |-> exec_id, status |-> "running",
                  attempt |-> attempt, retry_count |-> 0,
                  completed_at |-> NULL, next_retry_at |-> NULL])

update_task_status(rows, id, status) ==
    [rows EXCEPT ![id].status = status,
                 ![id].completed_at = IF status \in Terminal THEN Now ELSE NULL]

set_task_retry(rows, id, retry_count) ==
    [rows EXCEPT ![id].status = "retrying",
                 ![id].retry_count = retry_count,
                 ![id].next_retry_at = Now]

-----------------------------------------------------------------------------
(* scheduler.rs: the pieces of execute_task_with_retry *)

\* task.retry.unwrap_or(3)
max_retries(cfg, t) ==
    IF cfg.retry[t] = <<>> THEN DefaultRetries ELSE cfg.retry[t][1]

\* Mutant: the timeout error is not recognised and is written as failed.
AttemptStatus_timeout_as_failed(outcome) ==
    IF outcome = "success" THEN "success" ELSE "failed"

\* The status written for an attempt: exec_result.status of an Ok result,
\* Timeout for an error whose message contains "timed out", Failed otherwise.
AttemptStatus(outcome) ==
    CASE outcome = "success" -> "success"
      [] outcome = "failed"  -> "failed"
      [] outcome = "timeout" -> "timeout"
      [] OTHER               -> "failed"

\* Mutant: the last retry is never made.
will_retry_one_less(attempt, maxr) == attempt < maxr

\* if attempt <= max_retries { .. retry .. } else { return Ok(false) }
will_retry(attempt, maxr) == attempt <= maxr

\* set_task_retry(task_exec_id, (attempt - 1) as i32, next_retry_at)
retry_count_arg(attempt) == attempt - 1

\* Writes that may still fail.
WriteResults == IF store_errors < MaxStoreErrors THEN {TRUE, FALSE} ELSE {TRUE}

\* Mutant: one permit too many.
semaphore_permits_plus_one(max_parallel) == max_parallel + 1

\* Semaphore::new(max_parallel)
semaphore_permits(max_parallel) == max_parallel

\* Mutant: the flag follows the last task only.
record_task_success_last_only(success, task_success) == task_success

\* if !task_success { workflow_success = false; }
record_task_success(success, task_success) == success /\ task_success

Idle == [pc |-> "idle", attempt |-> 0, result |-> None, delay |-> 0]

\* Mutant: the permit is never given back.
Return_keeps_permit(t, result) ==
    /\ act' = [act EXCEPT ![t].pc = "done", ![t].result = result]
    /\ permits' = permits

\* The activity returns `result`; in the parallel path its permit is dropped.
Return(t, result) ==
    /\ act' = [act EXCEPT ![t].pc = "done", ![t].result = result]
    /\ permits' = IF config.max_parallel = 1 THEN permits ELSE permits + 1

-----------------------------------------------------------------------------
(* dag.rs: DagEngine::build *)

\* The tasks reachable from `node` along dependency edges in at most k steps.
RECURSIVE Reach(_, _, _)
Reach(cfg, from, k) ==
    IF k = 0 THEN {}
    ELSE LET next == {t \in Range(cfg.tasks) : \E d \in from : d \in cfg.depends_on[t]}
         IN next \cup Reach(cfg, next, k - 1)

\* Mutant: only a task that names itself counts as a cycle.
is_cyclic_directed_self_only(cfg) ==
    \E t \in Range(cfg.tasks) : t \in cfg.depends_on[t]

is_cyclic_directed(cfg) ==
    \E t \in Range(cfg.tasks) : t \in Reach(cfg, {t}, Len(cfg.tasks))

\* Mutant: an unknown name in depends_on is skipped instead of reported.
build_skips_unknown(cfg) ==
    IF is_cyclic_directed(cfg) THEN "CycleDetected" ELSE "ok"

\* The edge loop returns MissingDependency at the first unknown name, before
\* validate_acyclic is reached.
build(cfg) ==
    IF \E t \in Range(cfg.tasks) : \E d \in cfg.depends_on[t] : d \notin Range(cfg.tasks)
    THEN "MissingDependency"
    ELSE IF is_cyclic_directed(cfg) THEN "CycleDetected" ELSE "ok"

-----------------------------------------------------------------------------
(* scheduler.rs: execute_parallel, the spawn loop and the result loop *)

\* Mutant: a task is skipped when any dependency failed.
should_skip_any_failed(cfg, t, failed) ==
    \E dep \in cfg.depends_on[t] : dep \in failed

\* Some dependency is in the failed-set and has continue_on_failure = false.
should_skip(cfg, t, failed) ==
    \E dep \in cfg.depends_on[t] : dep \in failed /\ ~cfg.continue_on_failure[dep]

\* The spawn loop over one level: which tasks get an activity, and the
\* failed-set after the skipped ones were inserted.
RECURSIVE spawn_level(_, _, _, _)
spawn_level(cfg, level, spawned, failed) ==
    IF level = <<>> THEN [spawned |-> spawned, failed_tasks |-> failed]
    ELSE LET t == Head(level)
         IN IF should_skip(cfg, t, failed)
            THEN spawn_level(cfg, Tail(level), spawned, failed \cup {t})
            ELSE spawn_level(cfg, Tail(level), spawned \cup {t}, failed)

\* Mutant: a failure never stops the run.
stops_workflow_never(task_success, continue_on_failure) == FALSE

\* A failed task stops the run unless it has continue_on_failure.
stops_workflow(task_success, continue_on_failure) ==
    ~task_success /\ ~continue_on_failure

\* The result loop over the joined handles of one level, in spawn order.
RECURSIVE check_results(_, _, _, _, _)
check_results(cfg, handles, results, success, failed) ==
    IF handles = <<>>
    THEN [returned |-> FALSE, workflow_success |-> success, failed_tasks |-> failed]
    ELSE LET t == Head(handles)
         IN CASE results[t] = "ok_true" ->
                   check_results(cfg, Tail(handles), results, success, failed)
              [] results[t] = "ok_false" ->
                   IF stops_workflow(FALSE, cfg.continue_on_failure[t])
                   THEN [returned |-> TRUE, workflow_success |-> FALSE,
                         failed_tasks |-> failed \cup {t}]
                   ELSE check_results(cfg, Tail(handles), results,
                                      record_task_success(success, FALSE),
                                      failed \cup {t})
              [] OTHER ->
                   [returned |-> TRUE, workflow_success |-> FALSE,
                    failed_tasks |-> failed \cup {t}]

-----------------------------------------------------------------------------
(* The workflows execute_workflow is run on *)

DependsOnChoices ==
    {d \in [TaskNames -> SUBSET TaskNames] :
        \A i \in DOMAIN TaskList :
            d[TaskList[i]] \subseteq {TaskList[j] : j \in 1..(i - 1)}}

\* The retry settings of the three-task workflows: no task retries, or the
\* first two tasks retry once.
ShortRetries ==
    {[t \in TaskNames |-> <<0>>],
     [t \in TaskNames |-> IF t = "c" THEN <<0>> ELSE <<1>>]}

\* Three tasks, any dependencies on earlier tasks of the list.
Workflows3 ==
    {[name |-> "wf", schedule |-> None, tasks |-> TaskList, depends_on |-> d,
      continue_on_failure |-> c, retry |-> r, retry_default |-> DefaultRetries,
      max_parallel |-> p] :
        d \in DependsOnChoices, c \in [TaskNames -> BOOLEAN],
        r \in ShortRetries, p \in 1..MaxParallel}

\* config.retry_default of a workflow: the serde default, or another number.
RetryDefaults == {DefaultRetries, 1}

\* One task with a long retry sequence, or with no retry of its own in a
\* workflow with some retry_default.
Workflows1 ==
    {w \in
        {[name |-> "wf", schedule |-> None, tasks |-> <<"a">>,
          depends_on |-> [t \in {"a"} |-> {}],
          continue_on_failure |-> [t \in {"a"} |-> FALSE],
          retry |-> [t \in {"a"} |-> r], retry_default |-> d,
          max_parallel |-> p] :
            r \in {<<k>> : k \in 2..MaxLongRetries} \cup {<<>>},
            d \in RetryDefaults, p \in 1..MaxParallel} :
        w.retry["a"] # <<>> => w.retry_default = DefaultRetries}

\* Task lists DagEngine::build rejects.
WorkflowsInvalid ==
    {[name |-> "wf", schedule |-> None, tasks |-> <<"a", "b">>,
      depends_on |-> d, continue_on_failure |-> [t \in {"a", "b"} |-> FALSE],
      retry |-> [t \in {"a", "b"} |-> <<0>>], retry_default |-> DefaultRetries,
      max_parallel |-> 1] :
        d \in {[a |-> {"b"}, b |-> {"a"}], [a |-> {"a"}, b |-> {}],
               [a |-> {}, b |-> {Unknown}]}}

Workflows == Workflows3 \cup Workflows1 \cup WorkflowsInvalid

-----------------------------------------------------------------------------
(* The run *)

Init ==
    /\ config \in Workflows
    /\ workflows = <<>>
    /\ executions = <<>>
    /\ task_executions = [t \in TaskNames |-> <<>>]
    /\ pc = "build"
    /\ ret = None
    /\ workflow_id = 0
    /\ execution_id = 0
    /\ cursor = 0
    /\ workflow_success = TRUE
    /\ failed_tasks = {}
    /\ act = [t \in TaskNames |-> Idle]
    /\ permits = 0
    /\ store_errors = 0
    /\ slept = [t \in TaskNames |-> <<>>]
    /\ outcomes = [t \in TaskNames |-> <<>>]
    /\ pid_file = NoFile
    /\ daemon = [p \in Pids |-> NotStarted]
    /\ stop = NotStopping
    /\ jobs = <<>>
    /\ commands = [c \in Commands |-> NotRun]

\* execute_workflow: DagEngine::build(&config.tasks)?
Build ==
    /\ pc = "build"
    /\ IF build(config) = "ok"
       THEN pc' = "get_or_create_workflow" /\ ret' = ret
       ELSE pc' = "returned" /\ ret' = "err"
    /\ UNCHANGED <<daemon_vars, config, workflows, executions, task_executions, workflow_id,
                   execution_id, cursor, workflow_success, failed_tasks, act,
                   permits, store_errors, slept, outcomes>>

\* execute_workflow: state_manager.get_or_create_workflow(..)?
GetOrCreateWorkflow ==
    /\ pc = "get_or_create_workflow"
    /\ \E ok \in WriteResults :
          IF ok
          THEN LET r == get_or_create_workflow(workflows, config.name, config.schedule)
               IN /\ workflows' = r.table
                  /\ workflow_id' = r.id
                  /\ pc' = "start_execution"
                  /\ UNCHANGED <<ret, store_errors>>
          ELSE /\ store_errors' = store_errors + 1
               /\ pc' = "returned"
               /\ ret' = "err"
               /\ UNCHANGED <<workflows, workflow_id>>
    /\ UNCHANGED <<daemon_vars, config, executions, task_executions, execution_id, cursor,
                   workflow_success, failed_tasks, act, permits, slept, outcomes>>

\* The activity of task t starts its retry loop (sequential path) or waits
\* for a permit (parallel path).
Started(parallel) ==
    [pc |-> IF parallel THEN "acquire" ELSE "start", attempt |-> 1,
     result |-> None, delay |-> 0]

\* execute_workflow: start_execution(..)?, then the first task of the
\* topological order, or the spawn loop of level 0 with a fresh semaphore.
StartExecution ==
    /\ pc = "start_execution"
    /\ \E ok \in WriteResults :
          IF ok
          THEN /\ executions' = start_execution(executions, workflow_id)
               /\ execution_id' = Len(executions) + 1
               /\ cursor' = 1
               /\ IF config.max_parallel = 1
                  THEN /\ pc' = "sequential"
                       /\ act' = [act EXCEPT ![topological_sort(config)[1]] =
                                                 Started(FALSE)]
                       /\ UNCHANGED <<permits, failed_tasks>>
                  ELSE LET s == spawn_level(config, parallel_levels(config)[1],
                                            {}, failed_tasks)
                       IN /\ pc' = "parallel"
                          /\ permits' = semaphore_permits(config.max_parallel)
                          /\ failed_tasks' = s.failed_tasks
                          /\ act' = [t \in TaskNames |->
                                        IF t \in s.spawned THEN Started(TRUE)
                                        ELSE act[t]]
               /\ UNCHANGED <<ret, store_errors>>
          ELSE /\ store_errors' = store_errors + 1
               /\ pc' = "returned"
               /\ ret' = "err"
               /\ UNCHANGED <<executions, execution_id, cursor, act, permits,
                              failed_tasks>>
    /\ UNCHANGED <<daemon_vars, config, workflows, task_executions, workflow_id,
                   workflow_success, slept, outcomes>>

-----------------------------------------------------------------------------
(* execute_task_with_retry, one activity per task *)

\* semaphore.acquire().await in the spawned activity
AcquirePermit(t) ==
    /\ pc = "parallel"
    /\ act[t].pc = "acquire"
    /\ permits > 0
    /\ permits' = permits - 1
    /\ act' = [act EXCEPT ![t].pc = "start"]
    /\ UNCHANGED <<daemon_vars, config, workflows, executions, task_executions, pc, ret,
                   workflow_id, execution_id, cursor, workflow_success,
                   failed_tasks, store_errors, slept, outcomes>>

\* Top of the loop body: the backoff sleep that ended the previous iteration
\* is over, start_task(execution_id, name, attempt)? inserts the row.
StartTask(t) ==
    /\ act[t].pc = "start"
    /\ slept' = IF act[t].attempt > 1
                THEN [slept EXCEPT ![t] = Append(@, act[t].delay)]
                ELSE slept
    /\ \E ok \in WriteResults :
          IF ok
          THEN /\ task_executions' =
                     [task_executions EXCEPT
                         ![t] = start_task(@, execution_id, act[t].attempt)]
               /\ act' = [act EXCEPT ![t].pc = "exec"]
               /\ UNCHANGED <<permits, store_errors>>
          ELSE /\ store_errors' = store_errors + 1
               /\ Return(t, "err")
               /\ UNCHANGED task_executions
    /\ UNCHANGED <<daemon_vars, config, workflows, executions, pc, ret, workflow_id,
                   execution_id, cursor, workflow_success, failed_tasks, outcomes>>

\* execute_task returns (a result, an error, or the timeout), then
\* update_task_status(task_exec_id, status, ..)? and the branch on the result.
FinishAttempt(t) ==
    /\ act[t].pc = "exec"
    /\ \E o \in Outcomes :
          /\ outcomes' = [outcomes EXCEPT ![t] = Append(@, o)]
          /\ \E ok \in WriteResults :
                IF ok
                THEN /\ task_executions' =
                           [task_executions EXCEPT
                               ![t] = update_task_status(@, Len(@), AttemptStatus(o))]
                     /\ UNCHANGED store_errors
                     /\ IF o = "success"
                        THEN Return(t, "ok_true")
                        ELSE IF will_retry(act[t].attempt, max_retries(config, t))
                        THEN /\ act' = [act EXCEPT
                                   ![t].delay = calculate_backoff_delay(act[t].attempt),
                                   ![t].pc = IF o = "failed" THEN "set_task_retry"
                                             ELSE "start",
                                   ![t].attempt = IF o = "failed" THEN @ ELSE @ + 1]
                             /\ UNCHANGED permits
                        ELSE Return(t, "ok_false")
                ELSE /\ store_errors' = store_errors + 1
                     /\ Return(t, "err")
                     /\ UNCHANGED task_executions
    /\ UNCHANGED <<daemon_vars, config, workflows, executions, pc, ret, workflow_id,
                   execution_id, cursor, workflow_success, failed_tasks, slept>>

\* set_task_retry(task_exec_id, attempt - 1, next_retry_at)?, then the sleep
SetTaskRetry(t) ==
    /\ act[t].pc = "set_task_retry"
    /\ \E ok \in WriteResults :
          IF ok
          THEN /\ task_executions' =
                     [task_executions EXCEPT
                         ![t] = set_task_retry(@, Len(@), retry_count_arg(act[t].attempt))]
               /\ act' = [act EXCEPT ![t].pc = "start", ![t].attempt = @ + 1]
               /\ UNCHANGED <<permits, store_errors>>
          ELSE /\ store_errors' = store_errors + 1
               /\ Return(t, "err")
               /\ UNCHANGED task_executions
    /\ UNCHANGED <<daemon_vars, config, workflows, executions, pc, ret, workflow_id,
                   execution_id, cursor, workflow_success, failed_tasks, slept,
                   outcomes>>

-----------------------------------------------------------------------------
(* execute_sequential and execute_parallel: the loops *)

\* execute_sequential: the task at the cursor has returned; `?` on an error,
\* break on a failure without continue_on_failure, else the next task.
SequentialNext ==
    /\ pc = "sequential"
    /\ LET order == topological_sort(config)
           t == order[cursor]
           task_success == act[t].result = "ok_true"
       IN /\ act[t].pc = "done"
          /\ IF act[t].result = "err"
             THEN /\ pc' = "returned"
                  /\ ret' = "err"
                  /\ UNCHANGED <<cursor, workflow_success, act>>
             ELSE /\ workflow_success' =
                         record_task_success(workflow_success, task_success)
                  /\ ret' = ret
                  /\ IF stops_workflow(task_success, config.continue_on_failure[t])
                        \/ cursor = Len(order)
                     THEN /\ pc' = "update_execution_status"
                          /\ UNCHANGED <<cursor, act>>
                     ELSE /\ pc' = pc
                          /\ cursor' = cursor + 1
                          /\ act' = [act EXCEPT ![order[cursor + 1]] = Started(FALSE)]
    /\ UNCHANGED <<daemon_vars, config, workflows, executions, task_executions, workflow_id,
                   execution_id, failed_tasks, permits, store_errors, slept,
                   outcomes>>

\* Mutant: the result loop runs as soon as one handle has ended.
join_all_first_handle(handles) == \E t \in Range(handles) : act[t].pc = "done"

\* join_all(handles).await: every spawned activity of the level has ended.
join_all(handles) == \A t \in Range(handles) : act[t].pc = "done"

\* execute_parallel: join_all of the level's handles, the result loop, and
\* the spawn loop of the next level.
JoinLevel ==
    /\ pc = "parallel"
    /\ \E levels \in {parallel_levels(config)} :
       \E handles \in {SelectSeq(levels[cursor], LAMBDA t : act[t].pc # "idle")} :
          /\ join_all(handles)
          /\ \E r \in {check_results(config, handles,
                                     [t \in TaskNames |-> act[t].result],
                                     workflow_success, failed_tasks)} :
                /\ workflow_success' = r.workflow_success
                /\ IF r.returned \/ cursor = Len(levels)
                   THEN /\ pc' = "update_execution_status"
                        /\ failed_tasks' = r.failed_tasks
                        /\ UNCHANGED <<cursor, act>>
                   ELSE \E s \in {spawn_level(config, levels[cursor + 1], {},
                                              r.failed_tasks)} :
                           /\ pc' = pc
                           /\ cursor' = cursor + 1
                           /\ failed_tasks' = s.failed_tasks
                           /\ act' = [t \in TaskNames |->
                                         IF t \in s.spawned THEN Started(TRUE)
                                         ELSE act[t]]
    /\ UNCHANGED <<daemon_vars, config, workflows, executions, task_executions, ret,
                   workflow_id, execution_id, permits, store_errors, slept,
                   outcomes>>

\* execute_workflow: update_execution_status(execution_id, final_status)?,
\* then Ok(workflow_success)
UpdateExecutionStatus ==
    /\ pc = "update_execution_status"
    /\ pc' = "returned"
    /\ \E ok \in WriteResults :
          IF ok
          THEN /\ executions' =
                     update_execution_status(executions, execution_id,
                         IF workflow_success THEN "success" ELSE "failed")
               /\ ret' = IF workflow_success THEN "ok_true" ELSE "ok_false"
               /\ UNCHANGED store_errors
          ELSE /\ store_errors' = store_errors + 1
               /\ ret' = "err"
               /\ UNCHANGED executions
    /\ UNCHANGED <<daemon_vars, config, workflows, task_executions, workflow_id, execution_id,
                   cursor, workflow_success, failed_tasks, act, permits, slept,
                   outcomes>>

Next ==
    \/ Build
    \/ GetOrCreateWorkflow
    \/ StartExecution
    \/ \E t \in TaskNames : AcquirePermit(t)
    \/ \E t \in TaskNames : StartTask(t)
    \/ \E t \in TaskNames : FinishAttempt(t)
    \/ \E t \in TaskNames : SetTaskRetry(t)
    \/ SequentialNext
    \/ JoinLevel
    \/ UpdateExecutionStatus

Spec == Init /\ [][Next]_vars

-----------------------------------------------------------------------------
(* Properties of the run *)

Rows(t) == task_executions[t]

Tasks == Range(config.tasks)

HasTerminalRow(t) == \E i \in DOMAIN Rows(t) : Rows(t)[i].status \in Terminal

HasSuccessRow(t) == \E i \in DOMAIN Rows(t) : Rows(t)[i].status = "success"

\* The rows with status running, as (task, position) pairs.
RunningRows ==
    {r \in UNION {{<<t, i>> : i \in DOMAIN Rows(t)} : t \in TaskNames} :
        Rows(r[1])[r[2]].status = "running"}

\* The direct and transitive dependents of task u.
Dependents(u) == Reach(config, {u}, Len(config.tasks))

Returned == pc = "returned"

ReturnedResult == Returned /\ ret \in {"ok_true", "ok_false"}

\* C1: no task_executions row of a task is created before every task named in
\* its depends_on has a row with a terminal status in the same execution.
C1_DagOrder ==
    [][\A t \in TaskNames :
          Len(task_executions'[t]) > Len(task_executions[t]) =>
              \A d \in config.depends_on[t] : HasTerminalRow(d)]_vars

\* C1 witness: in a level-parallel run a task with dependencies has been started.
C1_Witness ==
    /\ config.max_parallel > 1
    /\ \E t \in Tasks : config.depends_on[t] # {} /\ Rows(t) # <<>>

\* C2 as stated: in a level-parallel run the rows with status running never
\* number more than max_parallel.
C2_RunningRowsWithinLimit ==
    config.max_parallel > 1 => Cardinality(RunningRows) <= config.max_parallel

\* C2 amended: the running rows of attempts still in flight never number more
\* than max_parallel; so do all running rows while no store write has failed,
\* and in general they exceed max_parallel by at most the number of activities
\* that ended on a store error.
C2_InFlightWithinLimit ==
    config.max_parallel > 1 =>
        /\ Cardinality({r \in RunningRows : act[r[1]].pc # "done"}) <= config.max_parallel
        /\ store_errors = 0 => Cardinality(RunningRows) <= config.max_parallel
        /\ Cardinality(RunningRows) <=
               config.max_parallel
                   + Cardinality({t \in TaskNames : act[t].result = "err"})

\* C2 witness: max_parallel rows are running while a third activity of the
\* same level waits for a permit.
C2_Witness ==
    /\ config.max_parallel = 2
    /\ Cardinality(RunningRows) = 2
    /\ permits = 0
    /\ \E t \in Tasks : act[t].pc = "acquire"

\* C3: when a task without continue_on_failure has failed on all its attempts,
\* none of its direct or transitive dependents has a task_executions row.
C3_NoDependentAttempted ==
    \A u \in Tasks :
        (act[u].result = "ok_false" /\ ~config.continue_on_failure[u]) =>
            \A d \in Dependents(u) : Rows(d) = <<>>

\* C3 witness: the run has returned and the failed task has a dependent that
\* itself has a dependent.
C3_Witness ==
    /\ Returned
    /\ \E u \in Tasks :
          /\ act[u].result = "ok_false"
          /\ ~config.continue_on_failure[u]
          /\ \E d \in Dependents(u) : u \notin config.depends_on[d]

\* No task stopped the run: none ended on an error, none failed without
\* continue_on_failure.
NothingStopped ==
    \A t \in Tasks :
        /\ act[t].result # "err"
        /\ act[t].result = "ok_false" => config.continue_on_failure[t]

\* C4: execute_workflow returns true and writes success exactly when every
\* task has a success row, and returns false and writes failed otherwise; a
\* failed task with continue_on_failure fails the run, and when nothing else
\* stopped the run every task was attempted.
C4_ResultIsAllSuccess ==
    ReturnedResult =>
        /\ (ret = "ok_true") = (\A t \in Tasks : HasSuccessRow(t))
        /\ executions[execution_id].status =
               (IF ret = "ok_true" THEN "success" ELSE "failed")
        /\ (\E u \in Tasks : act[u].result = "ok_false") => ret = "ok_false"
        /\ NothingStopped => \A t \in Tasks : Rows(t) # <<>>

\* C4 witness: a task with continue_on_failure failed, a dependent of it was
\* attempted, and the run returned false.
C4_Witness ==
    /\ ReturnedResult
    /\ ret = "ok_false"
    /\ \E u \in Tasks :
          /\ act[u].result = "ok_false"
          /\ config.continue_on_failure[u]
          /\ \E d \in Dependents(u) : HasSuccessRow(d)

\* C5: once execute_workflow has returned after creating the execution row,
\* with a result or with an error, that row holds a terminal status and a
\* non-null completed_at.
C5_ReturnedExecutionTerminal ==
    (Returned /\ execution_id # 0) =>
        /\ executions[execution_id].status \in Terminal
        /\ executions[execution_id].completed_at # NULL

\* C6: once execute_workflow has returned a result, the last row of every
\* attempted task holds a terminal status and no row is still running.
C6_ReturnedRowsTerminal ==
    ReturnedResult =>
        /\ \A t \in Tasks : Rows(t) # <<>> => Last(Rows(t)).status \in Terminal
        /\ RunningRows = {}

\* C7: every task_executions row satisfies attempt = 1 + retry_count.
C7_AttemptIsRetryCountPlusOne ==
    \A t \in TaskNames : \A i \in DOMAIN Rows(t) :
        Rows(t)[i].attempt = 1 + Rows(t)[i].retry_count

StatusWritten(t, k) ==
    k < Len(outcomes[t]) \/ act[t].result # "err" \/ Len(Rows(t)) > k

\* C10: the row of an attempt whose executor call timed out gets status
\* timeout; the task is then retried exactly when retries remain, and
\* otherwise has failed; a run that returns a result after the last attempt of
\* some task timed out returns false and is written failed.
C10_TimeoutIsFailedAttempt ==
    /\ \A t \in Tasks : \A k \in DOMAIN outcomes[t] :
          (outcomes[t][k] = "timeout" /\ StatusWritten(t, k)) =>
              /\ Rows(t)[k].status = "timeout"
              /\ (k = Len(outcomes[t]) /\ act[t].result # "err") =>
                    IF k <= max_retries(config, t)
                    THEN act[t].attempt = k + 1 /\ act[t].pc \in {"start", "exec"}
                    ELSE act[t].pc = "done" /\ act[t].result = "ok_false"
    /\ (ReturnedResult /\ \E t \in Tasks :
            outcomes[t] # <<>> /\ Last(outcomes[t]) = "timeout") =>
          /\ ret = "ok_false"
          /\ executions[execution_id].status = "failed"

\* C10 witness: a task timed out on its first attempt, was retried, timed out
\* on its last attempt, and the run returned false.
C10_Witness ==
    /\ ReturnedResult
    /\ \E t \in Tasks :
          /\ Len(outcomes[t]) = 2
          /\ outcomes[t][1] = "timeout"
          /\ outcomes[t][2] = "timeout"
          /\ Rows(t)[2].status = "timeout"
          /\ act[t].result = "ok_false"

-----------------------------------------------------------------------------
(* dag.rs on its own: DagEngine::build, topological_sort and             *)
(* parallel_levels applied to task lists                                  *)

DagTaskList == <<"a", "b", "c", "d">>

\* A second name that no task carries.
OtherUnknown == "zy"

\* The first n names of the list.
Prefix(n) == SubSeq(DagTaskList, 1, n)

\* A set of names as a depends_on vector, in the order of the task list.
InListOrder(S) == SelectSeq(DagTaskList, LAMBDA x : x \in S)

\* n tasks with the dependency relation d among them, cyclic or not.
DagRelation(n, d) ==
    [tasks |-> Prefix(n), depends_on |-> d,
     depends_on_vec |-> [t \in Range(Prefix(n)) |-> InListOrder(d[t])]]

\* depends_on vectors of at most two different names, known or unknown.
DepVecs ==
    LET names == TaskNames \cup {Unknown, OtherUnknown}
    IN {<<>>} \cup {<<x>> : x \in names}
              \cup {v \in names \X names : v[1] # v[2]}

\* Three tasks whose depends_on vectors are v: they may name unknown tasks,
\* in any order.
DagVector(v) ==
    [tasks |-> TaskList, depends_on |-> [t \in TaskNames |-> Range(v[t])],
     depends_on_vec |-> v]

\* Mutant: the first name of the vector is reported, known or not.
missing_dependency_first_name(cfg) ==
    LET bad == SelectSeq(cfg.tasks,
                   LAMBDA t : \E d \in cfg.depends_on[t] : d \notin Range(cfg.tasks))
        task == Head(bad)
    IN [kind |-> "MissingDependency", task |-> task,
        dependency |-> Head(cfg.depends_on_vec[task])]

\* The error of the edge loop: the first task of the list with an unknown
\* name in depends_on, and the first unknown name of its vector.
missing_dependency(cfg) ==
    LET bad == SelectSeq(cfg.tasks,
                   LAMBDA t : \E d \in cfg.depends_on[t] : d \notin Range(cfg.tasks))
        task == Head(bad)
    IN [kind |-> "MissingDependency", task |-> task,
        dependency |-> Head(SelectSeq(cfg.depends_on_vec[task],
                                      LAMBDA d : d \notin Range(cfg.tasks)))]

InitDag ==
    /\ \/ \E n \in 0..Len(DagTaskList) :
             \E d \in [Range(Prefix(n)) -> SUBSET Range(Prefix(n))] :
                 config = DagRelation(n, d)
       \/ \E v \in [TaskNames -> DepVecs] : config = DagVector(v)
    /\ pc = "dag"
    /\ ret = [kind |-> None]
    /\ workflows = <<>>
    /\ executions = <<>>
    /\ task_executions = [t \in TaskNames |-> <<>>]
    /\ workflow_id = 0
    /\ execution_id = 0
    /\ cursor = 0
    /\ workflow_success = TRUE
    /\ failed_tasks = {}
    /\ act = [t \in TaskNames |-> Idle]
    /\ permits = 0
    /\ store_errors = 0
    /\ slept = [t \in TaskNames |-> <<>>]
    /\ outcomes = [t \in TaskNames |-> <<>>]
    /\ pid_file = NoFile
    /\ daemon = [p \in Pids |-> NotStarted]
    /\ stop = NotStopping
    /\ jobs = <<>>
    /\ commands = [c \in Commands |-> NotRun]

DagUnchanged ==
    UNCHANGED <<daemon_vars, config, workflows, executions, task_executions, workflow_id,
                execution_id, cursor, workflow_success, failed_tasks, act,
                permits, store_errors, slept, outcomes>>

\* DagEngine::build(tasks)
DagEngineBuild ==
    /\ pc = "dag"
    /\ pc' = "built"
    /\ ret' = CASE build(config) = "MissingDependency" -> missing_dependency(config)
                [] build(config) = "CycleDetected" -> [kind |-> "CycleDetected"]
                [] OTHER -> [kind |-> "ok"]
    /\ DagUnchanged

\* dag.topological_sort() on a built engine
TopologicalSort ==
    /\ pc = "built"
    /\ ret.kind = "ok"
    /\ pc' = "sorted"
    /\ ret' = [kind |-> "order", order |-> topological_sort(config)]
    /\ DagUnchanged

\* dag.parallel_levels() on a built engine
ParallelLevels ==
    /\ pc = "built"
    /\ ret.kind = "ok"
    /\ pc' = "levelled"
    /\ ret' = [kind |-> "levels", levels |-> parallel_levels(config)]
    /\ DagUnchanged

NextDag ==
    \/ DagEngineBuild
    \/ TopologicalSort
    \/ ParallelLevels

SpecDag == InitDag /\ [][NextDag]_vars

-----------------------------------------------------------------------------
(* Properties of the graph functions *)

IndexOf(s, x) == CHOOSE i \in DOMAIN s : s[i] = x

\* Every name in depends_on is the name of a task of the list.
AllResolve(cfg) ==
    \A t \in Range(cfg.tasks) : cfg.depends_on[t] \subseteq Range(cfg.tasks)

\* The dependency relation has a cycle: some non-empty set of tasks in which
\* every task depends on a task of the set.
HasCycle(cfg) ==
    \E S \in SUBSET Range(cfg.tasks) :
        S # {} /\ \A t \in S : cfg.depends_on[t] \cap S # {}

\* The dependency chains of the list: p[i] is named in depends_on of p[i+1].
Paths(cfg) ==
    UNION {{p \in [1..k -> Range(cfg.tasks)] :
               \A i \in 1..(k - 1) : p[i] \in cfg.depends_on[p[i + 1]]} :
           k \in 1..Len(cfg.tasks)}

\* The number of edges of the longest chain that ends at task t.
LongestChainTo(cfg, t) ==
    SetMax({Len(p) - 1 : p \in {q \in Paths(cfg) : q[Len(q)] = t}})

LongestPath(cfg) == SetMax({Len(p) - 1 : p \in Paths(cfg)})

\* C14: topological_sort of a built graph returns every task name exactly
\* once, and every task after all the tasks named in its depends_on.
C14_TopologicalOrder ==
    pc = "sorted" =>
        LET order == ret.order
        IN /\ Len(order) = Len(config.tasks)
           /\ \A t \in Range(config.tasks) :
                 Cardinality({i \in DOMAIN order : order[i] = t}) = 1
           /\ \A v \in Range(config.tasks) : \A u \in config.depends_on[v] :
                 IndexOf(order, u) < IndexOf(order, v)

\* C14 witness: four tasks were sorted, the first of the list depends on the
\* last, and some task has two dependencies.
C14_Witness ==
    /\ pc = "sorted"
    /\ Len(config.tasks) = 4
    /\ "d" \in config.depends_on["a"]
    /\ \E t \in Range(config.tasks) : Cardinality(config.depends_on[t]) = 2

\* The level index of task t in levels, counted from 0.
LevelOf(levels, t) == (CHOOSE l \in DOMAIN levels : t \in Range(levels[l])) - 1

\* C15: parallel_levels puts every task in exactly one level and leaves no
\* level empty; level L holds exactly the tasks whose longest dependency chain
\* has L edges, so every edge goes from a lower to a higher level; for a
\* non-empty list the number of levels is one plus the longest path, and an
\* empty list has no level.
C15_LevelsByLongestChain ==
    pc = "levelled" =>
        LET levels == ret.levels
        IN /\ \A t \in Range(config.tasks) :
                 /\ Cardinality({l \in DOMAIN levels : t \in Range(levels[l])}) = 1
                 /\ LevelOf(levels, t) = LongestChainTo(config, t)
                 /\ \A u \in config.depends_on[t] :
                       LevelOf(levels, u) < LevelOf(levels, t)
           /\ \A l \in DOMAIN levels :
                 /\ levels[l] # <<>>
                 /\ Range(levels[l]) \subseteq Range(config.tasks)
                 /\ Cardinality(Range(levels[l])) = Len(levels[l])
           /\ IF config.tasks = <<>> THEN levels = <<>>
              ELSE Len(levels) = 1 + LongestPath(config)

\* C15 witness: three levels over four tasks, one level of two tasks, and a
\* task that depends on tasks of two different levels.
C15_Witness ==
    /\ pc = "levelled"
    /\ Len(config.tasks) = 4
    /\ Len(ret.levels) = 3
    /\ \E l \in DOMAIN ret.levels : Len(ret.levels[l]) = 2
    /\ \E t \in Range(config.tasks) : \E u, w \in config.depends_on[t] :
          LevelOf(ret.levels, u) # LevelOf(ret.levels, w)

\* C16 as stated: build fails with CycleDetected for every task list whose
\* dependency relation has a cycle, and succeeds for every list without a
\* cycle whose depends_on names all resolve.
C16_CycleAlwaysDetected ==
    pc = "built" =>
        /\ HasCycle(config) => ret.kind = "CycleDetected"
        /\ (~HasCycle(config) /\ AllResolve(config)) => ret.kind = "ok"

\* C16 amended: for a task list whose depends_on names all resolve, build
\* fails with CycleDetected when the dependency relation has a cycle (a task
\* that names itself included) and succeeds when it has none.
C16_CycleDetectedWhenResolved ==
    (pc = "built" /\ AllResolve(config)) =>
        ret.kind = (IF HasCycle(config) THEN "CycleDetected" ELSE "ok")

\* C16 witness: build rejected a list whose only cycle runs through three
\* tasks, none of which names itself.
C16_Witness ==
    /\ pc = "built"
    /\ ret.kind = "CycleDetected"
    /\ AllResolve(config)
    /\ \A t \in Range(config.tasks) : t \notin config.depends_on[t]
    /\ \A t, u \in Range(config.tasks) :
          ~(t \in config.depends_on[u] /\ u \in config.depends_on[t])

\* C17: when some depends_on names a task that is not in the list, build
\* fails with MissingDependency; the reported task is the first task of the
\* list with such a name, the reported dependency is an unknown name of that
\* task, the first one of its depends_on; a cycle among the other edges does
\* not change this.
C17_MissingDependencyReported ==
    (pc = "built" /\ ~AllResolve(config)) =>
        /\ ret.kind = "MissingDependency"
        /\ ret.task \in Range(config.tasks)
        /\ ret.dependency \in config.depends_on[ret.task]
        /\ ret.dependency \notin Range(config.tasks)
        /\ \A i \in 1..(IndexOf(config.tasks, ret.task) - 1) :
              config.depends_on[config.tasks[i]] \subseteq Range(config.tasks)
        /\ LET vec == config.depends_on_vec[ret.task]
           IN \A i \in 1..(IndexOf(vec, ret.dependency) - 1) :
                 vec[i] \in Range(config.tasks)

\* C17 witness: the list has a cycle and an unknown name; the reported task
\* is not the first of the list and the reported name is the second of its
\* depends_on.
C17_Witness ==
    /\ pc = "built"
    /\ ret.kind = "MissingDependency"
    /\ HasCycle(config)
    /\ ret.task # config.tasks[1]
    /\ config.depends_on_vec[ret.task][2] = ret.dependency

\* C18: on a task list that DagEngine::build rejects (an unknown depends_on
\* name or a cycle) execute_workflow goes from the build straight to its
\* return, returns the error, and the tables workflows, executions and
\* task_executions keep the content they had when it was called.
C18_BuildErrorLeavesStore ==
    (~AllResolve(config) \/ HasCycle(config)) =>
        /\ pc \in {"build", "returned"}
        /\ pc = "returned" => ret = "err"
        /\ workflows = <<>>
        /\ executions = <<>>
        /\ \A t \in TaskNames : task_executions[t] = <<>>

\* C18 witness: execute_workflow has returned the error of a cyclic task list
\* without any store write having failed.
C18_Witness ==
    /\ pc = "returned"
    /\ ret = "err"
    /\ HasCycle(config)
    /\ store_errors = 0

\* C27: a task without a retry of its own is run with the workflow's
\* retry_default: when it has failed on every attempt, it was attempted
\* retry_default + 1 times.
C27_RetryDefaultFromWorkflow ==
    \A t \in Tasks :
        (config.retry[t] = <<>> /\ act[t].result = "ok_false") =>
            Len(Rows(t)) = config.retry_default + 1


\* C29: the status of a task attempt row changes only from running, to
\* success, failed, timeout or retrying; a row that holds success, failed or
\* timeout keeps it.
C29_TerminalAttemptStatusIsFinal ==
    [][\A t \in TaskNames : \A i \in DOMAIN task_executions[t] :
          task_executions'[t][i].status # task_executions[t][i].status =>
              /\ task_executions[t][i].status = "running"
              /\ task_executions'[t][i].status \in Terminal \cup {"retrying"}]_vars

\* C31: whenever the row of a further attempt of a task is created, the row of
\* the attempt before it has status retrying and a next-retry time, whether
\* that attempt ended in a failed result, in an executor error or in a
\* timeout.
C31_RetryingBeforeNextAttempt ==
    [][\A t \in TaskNames :
          (/\ Len(task_executions'[t]) > Len(task_executions[t])
           /\ Len(task_executions[t]) >= 1) =>
              /\ Last(task_executions[t]).status = "retrying"
              /\ Last(task_executions[t]).next_retry_at # NULL]_vars


\* The task's activity was spawned and ended without a result of true while
\* the task has continue_on_failure = false.
FailedHard(u) ==
    /\ act[u].pc = "done"
    /\ act[u].result = "ok_false"
    /\ ~config.continue_on_failure[u]

\* C32: in the parallel path a task of a later level has an activity or a row
\* only when every activity of the earlier levels has ended, retries
\* included; when a task with continue_on_failure = false has failed, no task
\* of a later level has an activity or a row, while every task of its own
\* level has an activity, which has ended when the run leaves the loop.
C32_LevelBarrier ==
    (config.max_parallel > 1 /\ pc \in {"parallel", "update_execution_status", "returned"}) =>
        LET levels == parallel_levels(config)
        IN \A t \in Tasks : \A u \in Tasks :
              /\ (/\ LevelOf(levels, u) < LevelOf(levels, t)
                  /\ (act[t].pc # "idle" \/ Rows(t) # <<>>)) => act[u].pc = "done"
              /\ (FailedHard(u) /\ LevelOf(levels, u) < LevelOf(levels, t)) =>
                     (act[t].pc = "idle" /\ Rows(t) = <<>>)
              /\ (FailedHard(u) /\ LevelOf(levels, u) = LevelOf(levels, t)) =>
                     /\ act[t].pc # "idle"
                     /\ pc # "parallel" =>
                            (act[t].pc = "done" /\ (Rows(t) # <<>> \/ act[t].result = "err"))

\* A returned parallel run in which a failed on its last attempt without
\* continue_on_failure, b of the same level was attempted all the same, and c
\* of the next level never was.
C32_Witness ==
    /\ Returned
    /\ config.max_parallel > 1
    /\ Tasks = {"a", "b", "c"}
    /\ FailedHard("a")
    /\ LevelOf(parallel_levels(config), "a") = LevelOf(parallel_levels(config), "b")
    /\ LevelOf(parallel_levels(config), "c") > LevelOf(parallel_levels(config), "a")
    /\ Len(Rows("a")) > 1
    /\ Rows("b") # <<>>
    /\ Rows("c") = <<>>


\* The position of task t in the order the sequential path walks.
OrderOf(t) == CHOOSE i \in DOMAIN topological_sort(config) : topological_sort(config)[i] = t

\* C33: with max_parallel = 1 at most one attempt row is running and at most
\* one task has an attempt in progress; once a task with
\* continue_on_failure = false has failed, no task later in the order has an
\* activity or a row, whether it depends on the failed task or not; and a run
\* that returns a result in which only tasks with continue_on_failure = true
\* failed has walked the whole order.
C33_SequentialWalk ==
    (config.max_parallel = 1 /\ pc \in {"sequential", "update_execution_status", "returned"}) =>
        /\ Cardinality(RunningRows) <= 1
        /\ Cardinality({t \in Tasks : act[t].pc \notin {"idle", "done"}}) <= 1
        /\ \A u \in Tasks : \A t \in Tasks :
              (FailedHard(u) /\ OrderOf(u) < OrderOf(t)) =>
                  (act[t].pc = "idle" /\ Rows(t) = <<>>)
        /\ (ReturnedResult /\ \A u \in Tasks : ~FailedHard(u)) =>
              \A t \in Tasks : act[t].pc = "done" /\ Rows(t) # <<>>

\* A returned sequential run in which the first task of the order failed with
\* continue_on_failure = true, the second, which does not depend on it,
\* failed with continue_on_failure = false, and the third, which does not
\* depend on the second, has no row.
C33_Witness ==
    /\ ReturnedResult
    /\ config.max_parallel = 1
    /\ Len(config.tasks) = 3
    /\ LET order == topological_sort(config)
       IN /\ act[order[1]].result = "ok_false"
          /\ config.continue_on_failure[order[1]]
          /\ FailedHard(order[2])
          /\ order[1] \notin config.depends_on[order[2]]
          /\ order[3] \notin Dependents(order[2])
          /\ Rows(order[2]) # <<>>
          /\ Rows(order[3]) = <<>>


\* C34: a step that writes a task attempt row is taken while the row of the
\* execution exists with status running and before execute_workflow goes on
\* to its terminal update_execution_status; rows are only appended, and an
\* appended row is as start_task leaves it, so no update_task_status or
\* set_task_retry has acted on its id before; and when the run goes on to
\* the terminal write, in the parallel path after a failure too, no activity
\* is left that could write a row.
C34_WriteOrder ==
    /\ [][/\ task_executions' # task_executions =>
                /\ pc \in {"sequential", "parallel"}
                /\ execution_id \in DOMAIN executions
                /\ executions[execution_id].status = "running"
                /\ executions' = executions
          /\ \A t \in TaskNames :
                /\ Len(task_executions'[t]) >= Len(task_executions[t])
                /\ Len(task_executions'[t]) > Len(task_executions[t]) =>
                      /\ Len(task_executions'[t]) = Len(task_executions[t]) + 1
                      /\ Last(task_executions'[t]).status = "running"
                      /\ Last(task_executions'[t]).execution_id = execution_id
                      /\ Last(task_executions'[t]).completed_at = NULL
                      /\ Last(task_executions'[t]).next_retry_at = NULL
                      /\ SubSeq(task_executions'[t], 1, Len(task_executions[t]))
                             = task_executions[t]]_vars
    /\ [](pc \in {"update_execution_status", "returned"} =>
             \A t \in TaskNames : act[t].pc \in {"idle", "done"})

\* The parallel path returned early: a of the first level failed without
\* continue_on_failure after a retry, b of the same level has its rows, c of
\* the next level has none, and the execution was written failed.
C34_Witness ==
    /\ Returned
    /\ ret = "ok_false"
    /\ config.max_parallel > 1
    /\ Tasks = {"a", "b", "c"}
    /\ FailedHard("a")
    /\ config.depends_on["b"] = {}
    /\ config.depends_on["c"] # {}
    /\ Len(Rows("a")) > 1
    /\ Len(Rows("b")) > 1
    /\ Rows("c") = <<>>
    /\ executions[execution_id].status = "failed"


\* The tasks form one dependency chain: each task of the walk order depends
\* on the task before it and on nothing else.
IsChain(cfg) ==
    /\ \A t \in Range(cfg.tasks) : cfg.depends_on[t] \subseteq Range(cfg.tasks)
    /\ ~is_cyclic_directed(cfg)
    /\ LET order == topological_sort(cfg)
       IN \A i \in DOMAIN order :
             cfg.depends_on[order[i]] = IF i = 1 THEN {} ELSE {order[i - 1]}

\* The attempts a task makes on a sequence of executor outcomes: it stops at
\* the first success and after retry + 1 attempts.
AttemptsEnded(cfg, t, os) ==
    /\ os # <<>>
    /\ Len(os) <= max_retries(cfg, t) + 1
    /\ \A i \in 1..(Len(os) - 1) : os[i] # "success"
    /\ Last(os) = "success" \/ Len(os) = max_retries(cfg, t) + 1

\* The task before lets the chain go on: it succeeded, or it failed with
\* continue_on_failure = true.
GoesOn(cfg, u, os) ==
    os # <<>> /\ (Last(os) = "success" \/ cfg.continue_on_failure[u])

\* The final status of attempt i of a task whose executor outcomes were os.
FinalAttemptStatus(os, i) ==
    IF i < Len(os) /\ os[i] = "failed" THEN "retrying" ELSE AttemptStatus(os[i])

\* C35: for a dependency chain and a run without store errors, the return
\* value, the final execution status and the attempt rows of every task
\* (attempt number and final status) are one function of the workflow
\* without max_parallel and of the executor outcomes, and the outcomes
\* consumed are the same prefix of any pattern of outcomes; the sequential
\* and the parallel path therefore agree on all of them.
C35_PathsAgreeOnChains ==
    (Returned /\ store_errors = 0 /\ IsChain(config)) =>
        LET order == topological_sort(config)
            all_ok == \A t \in Tasks : outcomes[t] # <<>> /\ Last(outcomes[t]) = "success"
        IN /\ \A i \in DOMAIN order :
                 LET t == order[i]
                 IN /\ outcomes[t] # <<>> <=>
                          (i = 1 \/ GoesOn(config, order[i - 1], outcomes[order[i - 1]]))
                    /\ outcomes[t] # <<>> => AttemptsEnded(config, t, outcomes[t])
                    /\ Len(Rows(t)) = Len(outcomes[t])
                    /\ \A k \in DOMAIN Rows(t) :
                          /\ Rows(t)[k].attempt = k
                          /\ Rows(t)[k].status = FinalAttemptStatus(outcomes[t], k)
           /\ ret = IF all_ok THEN "ok_true" ELSE "ok_false"
           /\ executions[execution_id].status = IF all_ok THEN "success" ELSE "failed"

\* A parallel run of the chain a, b, c returned: a timed out and then failed
\* with continue_on_failure = true, b ran into an executor error and then
\* succeeded, and c failed.
C35_Witness ==
    /\ Returned
    /\ store_errors = 0
    /\ config.max_parallel > 1
    /\ Len(config.tasks) = 3
    /\ IsChain(config)
    /\ outcomes["a"] = <<"timeout", "failed">>
    /\ outcomes["b"] = <<"error", "success">>
    /\ outcomes["c"] = <<"failed">>
    /\ ret = "ok_false"


\* C36: a run in which a store write of a task attempt (start_task,
\* update_task_status or set_task_retry) failed returns that error, in the
\* sequential and in the parallel path.
C36_TaskWriteErrorPropagates ==
    (Returned /\ \E t \in TaskNames : act[t].result = "err") => ret = "err"


\* C39: in the parallel path, while the levels are walked every task in the
\* failed-set has continue_on_failure = true, so no task of a level that was
\* reached is skipped: each has an activity.
C39_NoSkip ==
    (config.max_parallel > 1 /\ pc = "parallel") =>
        /\ \A t \in failed_tasks : config.continue_on_failure[t]
        /\ \A t \in Tasks : ~should_skip(config, t, failed_tasks)
        /\ \A l \in 1..cursor : \A t \in Range(parallel_levels(config)[l]) :
              act[t].pc # "idle"

\* A level was started with a failed task in the failed-set, and a task of
\* that level which depends on the failed task has its activity.
C39_Witness ==
    /\ config.max_parallel > 1
    /\ pc = "parallel"
    /\ cursor >= 2
    /\ \E u \in failed_tasks : \E t \in Range(parallel_levels(config)[cursor]) :
          /\ u \in config.depends_on[t]
          /\ act[u].result = "ok_false"
          /\ Len(Rows(u)) > 1
          /\ act[t].pc \notin {"idle", "done"}

-----------------------------------------------------------------------------
(* scheduler.rs: the level-parallel path on its own, every store write     *)
(* succeeding, under fair scheduling                                        *)

\* The workflows execute_workflow walks by levels.
WorkflowsParallel == {w \in Workflows3 \cup Workflows1 : w.max_parallel > 1}

\* No workflow has been handed to execute_workflow yet.
NoWorkflow == [name |-> None]

\* The run starts with no store failure left to come: store_errors counts
\* the failed writes up to MaxStoreErrors.
InitParallel ==
    /\ config = NoWorkflow
    /\ workflows = <<>>
    /\ executions = <<>>
    /\ task_executions = [t \in TaskNames |-> <<>>]
    /\ pc = "call"
    /\ ret = None
    /\ workflow_id = 0
    /\ execution_id = 0
    /\ cursor = 0
    /\ workflow_success = TRUE
    /\ failed_tasks = {}
    /\ act = [t \in TaskNames |-> Idle]
    /\ permits = 0
    /\ store_errors = MaxStoreErrors
    /\ slept = [t \in TaskNames |-> <<>>]
    /\ outcomes = [t \in TaskNames |-> <<>>]
    /\ pid_file = NoFile
    /\ daemon = [p \in Pids |-> NotStarted]
    /\ stop = NotStopping
    /\ jobs = <<>>
    /\ commands = [c \in Commands |-> NotRun]

\* The caller hands a workflow to execute_workflow.
CallExecuteWorkflow ==
    /\ pc = "call"
    /\ config' \in WorkflowsParallel
    /\ pc' = "build"
    /\ UNCHANGED <<daemon_vars, workflows, executions, task_executions, ret,
                   workflow_id, execution_id, cursor, workflow_success,
                   failed_tasks, act, permits, store_errors, slept, outcomes>>

NextParallel ==
    \/ CallExecuteWorkflow
    \/ Build
    \/ GetOrCreateWorkflow
    \/ StartExecution
    \/ \E t \in TaskNames : AcquirePermit(t)
    \/ \E t \in TaskNames : StartTask(t)
    \/ \E t \in TaskNames : FinishAttempt(t)
    \/ \E t \in TaskNames : SetTaskRetry(t)
    \/ JoinLevel
    \/ UpdateExecutionStatus

SpecParallel == InitParallel /\ [][NextParallel]_vars

\* The runtime runs every activity that can take a step: an executor call
\* returns or hits its timeout, a write returns, a sleep ends, and a waiter
\* on the semaphore gets a permit that stays free.
SpecParallelFair == SpecParallel /\ WF_vars(NextParallel)

\* C40: a level-parallel run whose store writes succeed comes to its return
\* with a result: every activity that was spawned has ended, every permit
\* is back in the semaphore, every level that was reached is complete, and
\* the execution has a terminal status.
C40_ParallelRunTerminates ==
    <>(/\ ReturnedResult
       /\ execution_id \in DOMAIN executions
       /\ executions[execution_id].status \in {"success", "failed"}
       /\ permits = semaphore_permits(config.max_parallel)
       /\ \A t \in TaskNames : act[t].pc \in {"idle", "done"}
       /\ \A l \in 1..cursor : \A t \in Range(parallel_levels(config)[l]) :
             act[t].pc = "done")

\* Three activities of one level and two permits: one activity waits on the
\* semaphore while the other two hold the permits, one of them in a retry.
C40_Witness ==
    /\ pc = "parallel"
    /\ store_errors = MaxStoreErrors
    /\ config.max_parallel = 2
    /\ permits = 0
    /\ \E t \in Tasks : act[t].pc = "acquire"
    /\ \E t \in Tasks : act[t].pc = "exec" /\ act[t].attempt > 1

-----------------------------------------------------------------------------
(* retry.rs on its own: the two backoff computations on attempt numbers   *)

InitBackoff ==
    /\ config = [attempt |-> 1, overflow_checks |-> FALSE]
    /\ pc = "backoff"
    /\ ret = [kind |-> None, delay |-> 0]
    /\ workflows = <<>>
    /\ executions = <<>>
    /\ task_executions = [t \in TaskNames |-> <<>>]
    /\ workflow_id = 0
    /\ execution_id = 0
    /\ cursor = 0
    /\ workflow_success = TRUE
    /\ failed_tasks = {}
    /\ act = [t \in TaskNames |-> Idle]
    /\ permits = 0
    /\ store_errors = 0
    /\ slept = [t \in TaskNames |-> <<>>]
    /\ outcomes = [t \in TaskNames |-> <<>>]
    /\ pid_file = NoFile
    /\ daemon = [p \in Pids |-> NotStarted]
    /\ stop = NotStopping
    /\ jobs = <<>>
    /\ commands = [c \in Commands |-> NotRun]

BackoffUnchanged ==
    UNCHANGED <<daemon_vars, workflows, executions, task_executions, workflow_id,
                execution_id, cursor, workflow_success, failed_tasks, act,
                permits, store_errors, slept, outcomes>>

\* calculate_backoff_delay(attempt) in a build with or without overflow
\* checks: with them an overflowing pow panics, without them it wraps.
CalculateBackoffDelay ==
    /\ \E attempt \in 1..MaxAttempt : \E overflow_checks \in BOOLEAN :
          /\ config' = [attempt |-> attempt, overflow_checks |-> overflow_checks]
          /\ ret' = IF overflow_checks /\ pow_overflows(attempt - 1)
                    THEN [kind |-> "panic", delay |-> 0]
                    ELSE [kind |-> "delay", delay |-> calculate_backoff_delay(attempt)]
    /\ pc' = "calculate_backoff_delay"
    /\ BackoffUnchanged

\* RetryState::calculate_delay under the default config, with
\* retry_count = attempt - 1
CalculateDelay ==
    /\ \E attempt \in 1..MaxAttempt : \E overflow_checks \in BOOLEAN :
          /\ config' = [attempt |-> attempt, overflow_checks |-> overflow_checks]
          /\ ret' = [kind |-> "delay",
                     delay |-> calculate_delay(default_config, attempt - 1)]
    /\ pc' = "calculate_delay"
    /\ BackoffUnchanged

NextBackoff ==
    \/ CalculateBackoffDelay
    \/ CalculateDelay

SpecBackoff == InitBackoff /\ [][NextBackoff]_vars

\* min(2^(a - 1), 60): 2^(a - 1) is above 60 from a = 7 on.
MinPow2Cap(a) == Min(Pow2(Min(a - 1, 30)), MaxDelaySecs)

\* C38: for every attempt number a >= 1, calculate_backoff_delay(a) returns
\* without overflow, the delay is min(2^(a - 1), 60) seconds, it is the delay
\* RetryState::calculate_delay gives for retry_count = a - 1 under the
\* default config, and it is not below the delay of any smaller attempt
\* number.
C38_BackoffDelay ==
    pc = "calculate_backoff_delay" =>
        /\ ret.kind = "delay"
        /\ ret.delay = MinPow2Cap(config.attempt)
        /\ ret.delay = calculate_delay(default_config, config.attempt - 1)
        /\ \A b \in 1..config.attempt : calculate_backoff_delay(b) <= ret.delay

-----------------------------------------------------------------------------
(* state.rs on its own: the store under any sequence of calls of its      *)
(* writes and of recover_from_crash                                       *)

MaxExecutions == 2

\* The statuses update_execution_status is called with.
ExecutionStatuses == {"running", "success", "failed", "timeout"}

\* SELECT id FROM executions WHERE status = 'running'
crashed_ids(execs) == {id \in DOMAIN execs : execs[id].status = "running"}

\* Mutant: the rows are marked failed without a completion time.
mark_failed_no_time(execs, ids) ==
    [id \in DOMAIN execs |->
        IF id \in ids THEN [execs[id] EXCEPT !.status = "failed"] ELSE execs[id]]

\* UPDATE executions SET status = 'failed', completed_at = now WHERE id = ?,
\* for each id of ids.
mark_failed(execs, ids) ==
    [id \in DOMAIN execs |->
        IF id \in ids
        THEN [execs[id] EXCEPT !.status = "failed", !.completed_at = Now]
        ELSE execs[id]]

\* Mutant: the oldest running execution is overlooked.
recover_from_crash_skips_first(execs) ==
    LET ids == crashed_ids(execs)
        some == IF ids = {} THEN {} ELSE ids \ {CHOOSE i \in ids : \A j \in ids : i <= j}
    IN [table |-> mark_failed(execs, some), ids |-> some]

\* recover_from_crash when every statement succeeds.
recover_from_crash(execs) ==
    LET ids == crashed_ids(execs)
    IN [table |-> mark_failed(execs, ids), ids |-> ids]

InitStore ==
    /\ config = [op |-> None]
    /\ pc = "store"
    /\ ret = [kind |-> None, ids |-> {}]
    /\ workflows = <<>>
    /\ executions = <<>>
    /\ task_executions = [t \in TaskNames |-> <<>>]
    /\ workflow_id = 0
    /\ execution_id = 0
    /\ cursor = 0
    /\ workflow_success = TRUE
    /\ failed_tasks = {}
    /\ act = [t \in TaskNames |-> Idle]
    /\ permits = 0
    /\ store_errors = 0
    /\ slept = [t \in TaskNames |-> <<>>]
    /\ outcomes = [t \in TaskNames |-> <<>>]
    /\ pid_file = NoFile
    /\ daemon = [p \in Pids |-> NotStarted]
    /\ stop = NotStopping
    /\ jobs = <<>>
    /\ commands = [c \in Commands |-> NotRun]

StoreUnchanged ==
    UNCHANGED <<daemon_vars, workflow_id, execution_id, cursor, workflow_success,
                failed_tasks, act, permits, slept, outcomes>>

\* A call whose statement fails: Err(Sqlite), nothing written.
StoreError ==
    /\ store_errors' = store_errors + 1
    /\ ret' = [kind |-> "err", ids |-> {}]

StoreOk(ids) ==
    /\ store_errors' = store_errors
    /\ ret' = [kind |-> "ok", ids |-> ids]

\* get_or_create_workflow("wf", None)
StoreGetOrCreateWorkflow ==
    /\ pc' = "get_or_create_workflow"
    /\ config' = [op |-> "get_or_create_workflow"]
    /\ \E ok \in WriteResults :
          IF ok
          THEN LET r == get_or_create_workflow(workflows, "wf", None)
               IN workflows' = r.table /\ StoreOk({r.id})
          ELSE StoreError /\ UNCHANGED workflows
    /\ UNCHANGED <<executions, task_executions>>
    /\ StoreUnchanged

\* start_execution(workflow_id) for a workflow of the table
StoreStartExecution ==
    /\ Len(executions) < MaxExecutions
    /\ pc' = "start_execution"
    /\ \E wf_id \in DOMAIN workflows :
          /\ config' = [op |-> "start_execution"]
          /\ \E ok \in WriteResults :
                IF ok
                THEN /\ executions' = start_execution(executions, wf_id)
                     /\ StoreOk({Len(executions) + 1})
                ELSE StoreError /\ UNCHANGED executions
    /\ UNCHANGED <<workflows, task_executions>>
    /\ StoreUnchanged

\* update_execution_status(id, status) for a row of the table
StoreUpdateExecutionStatus ==
    /\ pc' = "update_execution_status"
    /\ \E id \in DOMAIN executions : \E status \in ExecutionStatuses :
          /\ config' = [op |-> "update_execution_status"]
          /\ \E ok \in WriteResults :
                IF ok
                THEN /\ executions' = update_execution_status(executions, id, status)
                     /\ StoreOk({})
                ELSE StoreError /\ UNCHANGED executions
    /\ UNCHANGED <<workflows, task_executions>>
    /\ StoreUnchanged

\* start_task(execution_id, "a", 1): the first attempt of task a in an
\* execution of the table that has not attempted it yet
StoreStartTask ==
    /\ pc' = "start_task"
    /\ \E exec_id \in DOMAIN executions :
          /\ \A i \in DOMAIN task_executions["a"] :
                task_executions["a"][i].execution_id # exec_id
          /\ config' = [op |-> "start_task"]
          /\ \E ok \in WriteResults :
                IF ok
                THEN /\ task_executions' =
                           [task_executions EXCEPT !["a"] = start_task(@, exec_id, 1)]
                     /\ StoreOk({})
                ELSE StoreError /\ UNCHANGED task_executions
    /\ UNCHANGED <<workflows, executions>>
    /\ StoreUnchanged

\* update_task_status(id, status, ..) with a status an attempt can end in
StoreUpdateTaskStatus ==
    /\ pc' = "update_task_status"
    /\ \E id \in DOMAIN task_executions["a"] : \E status \in {"success", "failed"} :
          /\ config' = [op |-> "update_task_status"]
          /\ \E ok \in WriteResults :
                IF ok
                THEN /\ task_executions' =
                           [task_executions EXCEPT
                               !["a"] = update_task_status(@, id, status)]
                     /\ StoreOk({})
                ELSE StoreError /\ UNCHANGED task_executions
    /\ UNCHANGED <<workflows, executions>>
    /\ StoreUnchanged

\* recover_from_crash(): the SELECT, then one UPDATE per running execution.
\* The statements are not in a transaction: when one fails, the rows updated
\* before it stay failed and the call returns the error.
RecoverFromCrash ==
    /\ pc' = "recover_from_crash"
    /\ config' = [op |-> "recover_from_crash"]
    /\ \E ok \in WriteResults :
          IF ok
          THEN LET r == recover_from_crash(executions)
               IN executions' = r.table /\ StoreOk(r.ids)
          ELSE /\ StoreError
               /\ \E done \in SUBSET crashed_ids(executions) :
                     /\ done = crashed_ids(executions) => done = {}
                     /\ executions' = mark_failed(executions, done)
    /\ UNCHANGED <<workflows, task_executions>>
    /\ StoreUnchanged

NextStore ==
    \/ StoreGetOrCreateWorkflow
    \/ StoreStartExecution
    \/ StoreUpdateExecutionStatus
    \/ StoreStartTask
    \/ StoreUpdateTaskStatus
    \/ RecoverFromCrash

SpecStore == InitStore /\ [][NextStore]_vars

-----------------------------------------------------------------------------
(* Properties of crash recovery *)

\* recover_from_crash was the last call on the store and returned Ok.
Recovered == pc = "recover_from_crash" /\ ret.kind = "ok"

\* C11: when recover_from_crash has returned its list of ids, no execution
\* row has status running, whatever calls of start_execution and
\* update_execution_status came before.
C11_NoRunningAfterRecovery ==
    Recovered => \A id \in DOMAIN executions : executions[id].status # "running"

\* C11 witness: recovery found two running executions at once.
C11_Witness ==
    /\ Recovered
    /\ Cardinality(ret.ids) = 2

\* C12: recover_from_crash returns exactly the ids of the executions that
\* were running when it was called, leaves each of them failed with a
\* completion time, and changes no other execution row.
C12_RecoveryFrame ==
    [][(pc' = "recover_from_crash" /\ ret'.kind = "ok") =>
          /\ ret'.ids = {id \in DOMAIN executions : executions[id].status = "running"}
          /\ DOMAIN executions' = DOMAIN executions
          /\ \A id \in DOMAIN executions :
                IF id \in ret'.ids
                THEN /\ executions'[id].status = "failed"
                     /\ executions'[id].completed_at # NULL
                     /\ executions'[id].workflow_id = executions[id].workflow_id
                ELSE executions'[id] = executions[id]]_vars

\* C12 witness: recovery marked the first execution and left the second one,
\* which had timed out, as it was.
C12_Witness ==
    /\ Recovered
    /\ ret.ids = {1}
    /\ Len(executions) = 2
    /\ executions[2].status = "timeout"

\* C13: when recover_from_crash has returned its list of ids, no task attempt
\* row is left in status running.
C13_NoRunningTaskAfterRecovery ==
    Recovered =>
        \A t \in TaskNames : \A i \in DOMAIN task_executions[t] :
            task_executions[t][i].status # "running"

-----------------------------------------------------------------------------
(* state.rs: get_or_create_workflow called again and again *)

WorkflowNames == {"wf", "wf2"}

\* Option<&str>: no schedule, or one of two cron expressions.
Schedules == {None, "s1", "s2"}

InitWorkflows ==
    /\ config = [op |-> None, name |-> None, schedule |-> None]
    /\ pc = "store"
    /\ ret = [kind |-> None, ids |-> {}]
    /\ workflows = <<>>
    /\ executions = <<>>
    /\ task_executions = [t \in TaskNames |-> <<>>]
    /\ workflow_id = 0
    /\ execution_id = 0
    /\ cursor = 0
    /\ workflow_success = TRUE
    /\ failed_tasks = {}
    /\ act = [t \in TaskNames |-> Idle]
    /\ permits = 0
    /\ store_errors = 0
    /\ slept = [t \in TaskNames |-> <<>>]
    /\ outcomes = [t \in TaskNames |-> <<>>]
    /\ pid_file = NoFile
    /\ daemon = [p \in Pids |-> NotStarted]
    /\ stop = NotStopping
    /\ jobs = <<>>
    /\ commands = [c \in Commands |-> NotRun]

\* get_or_create_workflow(name, schedule)
GetOrCreateWorkflowCall(name, schedule) ==
    /\ pc' = "get_or_create_workflow"
    /\ config' = [op |-> "get_or_create_workflow", name |-> name,
                  schedule |-> schedule]
    /\ \E ok \in WriteResults :
          IF ok
          THEN LET r == get_or_create_workflow(workflows, name, schedule)
               IN workflows' = r.table /\ StoreOk({r.id})
          ELSE StoreError /\ UNCHANGED workflows
    /\ UNCHANGED <<executions, task_executions>>
    /\ StoreUnchanged

NextWorkflows ==
    \E name \in WorkflowNames : \E schedule \in Schedules :
        GetOrCreateWorkflowCall(name, schedule)

SpecWorkflows == InitWorkflows /\ [][NextWorkflows]_vars

\* The ids of the rows of the workflows table that carry `name`.
RowsNamed(wfs, name) == {i \in DOMAIN wfs : wfs[i].name = name}

\* C19: a call get_or_create_workflow(name, s2) that follows a call for the
\* same name returns the id the earlier call returned; after it there is
\* exactly one row for the name, that row has the returned id and its
\* schedule is s2, also when s2 is none; the rows of other names are as
\* before.
C19_GetOrCreateIdempotent ==
    [][(pc' = "get_or_create_workflow" /\ ret'.kind = "ok") =>
          LET name == config'.name
              id == CHOOSE i \in ret'.ids : TRUE
          IN /\ Cardinality(ret'.ids) = 1
             /\ RowsNamed(workflows', name) = {id}
             /\ workflows'[id].schedule = config'.schedule
             /\ RowsNamed(workflows, name) # {} =>
                   /\ RowsNamed(workflows, name) = {id}
                   /\ Len(workflows') = Len(workflows)
             /\ (ret.kind = "ok" /\ config.name = name) => ret'.ids = ret.ids
             /\ \A i \in DOMAIN workflows :
                   workflows[i].name # name => workflows'[i] = workflows[i]]_vars

\* C19 witness: after the second workflow was created the first one was
\* asked for again, with no schedule, and came back under its id.
C19_Witness ==
    /\ pc = "get_or_create_workflow"
    /\ ret = [kind |-> "ok", ids |-> {1}]
    /\ config.schedule = None
    /\ Len(workflows) = 2
    /\ workflows[1].schedule = None
    /\ workflows[2].schedule = "s2"

-----------------------------------------------------------------------------
(* daemon.rs: `daemon start` in several processes on one PID file *)

\* The positions of Daemon::run after write_pid_file: the guard is in scope.
AfterWrite == {"written", "recovered", "started", "waiting"}

\* The process is running: it is between Daemon::new and the end of run.
Live(p) == daemon[p].pc \in {"new"} \cup AfterWrite

InitDaemon ==
    /\ config = [op |-> None]
    /\ pc = "daemon"
    /\ ret = [kind |-> None, ids |-> {}]
    /\ workflows = <<>>
    /\ executions = <<>>
    /\ task_executions = [t \in TaskNames |-> <<>>]
    /\ workflow_id = 0
    /\ execution_id = 0
    /\ cursor = 0
    /\ workflow_success = TRUE
    /\ failed_tasks = {}
    /\ act = [t \in TaskNames |-> Idle]
    /\ permits = 0
    /\ store_errors = 0
    /\ slept = [t \in TaskNames |-> <<>>]
    /\ outcomes = [t \in TaskNames |-> <<>>]
    /\ pid_file = NoFile
    /\ daemon = [p \in Pids |-> NotStarted]
    /\ stop = NotStopping
    /\ jobs = <<>>
    /\ commands = [c \in Commands |-> NotRun]

DaemonUnchanged ==
    UNCHANGED <<config, workflows, task_executions, pc, ret,
                workflow_id, execution_id, cursor, workflow_success,
                failed_tasks, act, permits, store_errors, slept, outcomes,
                jobs, commands>>

\* Mutant: the guard leaves the file where it is.
PidFileGuard_drop_keeps_file(file) == file

\* Drop for PidFileGuard: if the file exists it is removed.
PidFileGuard_drop(file) == IF file # NoFile THEN NoFile ELSE file

\* remove_pid_file: if the file exists it is removed.
remove_pid_file(file) == IF file # NoFile THEN NoFile ELSE file

\* Daemon::run returns Err after write_pid_file: `?` leaves run and the
\* guard is dropped.
RunFails(p) ==
    /\ pid_file' = PidFileGuard_drop(pid_file)
    /\ daemon' = [daemon EXCEPT ![p].pc = "run_failed"]

\* Daemon::new in process p: Err when the PID file exists, whatever it holds;
\* else the cron scheduler is created, which may fail. `found` and
\* `found_live` keep what the file held and whether that process was running.
DaemonNew(p) ==
    /\ daemon[p].pc = "none"
    /\ \E created \in BOOLEAN :
          daemon' = [daemon EXCEPT
              ![p] = [pc |-> IF pid_file # NoFile THEN "refused"
                             ELSE IF created THEN "new" ELSE "failed",
                      found |-> pid_file,
                      found_live |-> pid_file \in Pids /\ Live(pid_file),
                      signalled |-> FALSE]]
    /\ UNCHANGED <<pid_file, executions, stop>>
    /\ DaemonUnchanged

\* add_workflow, then the first statement of Daemon::run: write_pid_file()?
\* writes the process id over whatever the file holds. An error of
\* add_workflow or of the write ends the command with the file as it was.
WritePidFile(p) ==
    /\ daemon[p].pc = "new"
    /\ \E ok \in BOOLEAN :
          IF ok
          THEN /\ pid_file' = p
               /\ daemon' = [daemon EXCEPT ![p].pc = "written"]
          ELSE /\ pid_file' = pid_file
               /\ daemon' = [daemon EXCEPT ![p].pc = "failed"]
    /\ UNCHANGED <<executions, stop>>
    /\ DaemonUnchanged

\* self.state_manager.recover_from_crash().await? in Daemon::run
DaemonRecoverFromCrash(p) ==
    /\ daemon[p].pc = "written"
    /\ \E ok \in BOOLEAN :
          IF ok
          THEN /\ executions' = recover_from_crash(executions).table
               /\ pid_file' = pid_file
               /\ daemon' = [daemon EXCEPT ![p].pc = "recovered"]
          ELSE /\ \E done \in SUBSET crashed_ids(executions) :
                     /\ done = crashed_ids(executions) => done = {}
                     /\ executions' = mark_failed(executions, done)
               /\ RunFails(p)
    /\ UNCHANGED stop
    /\ DaemonUnchanged

\* self.cron_scheduler.start().await? in Daemon::run
CronStart(p) ==
    /\ daemon[p].pc = "recovered"
    /\ \E ok \in BOOLEAN :
          IF ok
          THEN /\ pid_file' = pid_file
               /\ daemon' = [daemon EXCEPT ![p].pc = "started"]
          ELSE RunFails(p)
    /\ UNCHANGED <<executions, stop>>
    /\ DaemonUnchanged

\* The three signal(..)? registrations of Daemon::run; after them the
\* process is in the signal loop.
SignalHandlers(p) ==
    /\ daemon[p].pc = "started"
    /\ \E ok \in BOOLEAN :
          IF ok
          THEN /\ pid_file' = pid_file
               /\ daemon' = [daemon EXCEPT ![p].pc = "waiting"]
          ELSE RunFails(p)
    /\ UNCHANGED <<executions, stop>>
    /\ DaemonUnchanged

\* SIGTERM or SIGINT sent to the process in its signal loop by anyone.
Signal(p) ==
    /\ daemon[p].pc = "waiting"
    /\ ~daemon[p].signalled
    /\ daemon' = [daemon EXCEPT ![p].signalled = TRUE]
    /\ UNCHANGED <<pid_file, executions, stop>>
    /\ DaemonUnchanged

\* The signal loop receives SIGTERM or SIGINT and breaks: shutdown() stops
\* the cron scheduler, then remove_pid_file()?; an error of the cron
\* scheduler leaves shutdown and run by `?`. The guard is dropped either way.
DaemonShutdown(p) ==
    /\ daemon[p].pc = "waiting"
    /\ daemon[p].signalled
    /\ \E cron_stopped \in BOOLEAN :
          IF cron_stopped
          THEN /\ pid_file' = PidFileGuard_drop(remove_pid_file(pid_file))
               /\ daemon' = [daemon EXCEPT ![p].pc = "exited"]
          ELSE RunFails(p)
    /\ UNCHANGED <<executions, stop>>
    /\ DaemonUnchanged

\* A panic in Daemon::run after write_pid_file: the stack unwinds and the
\* guard is dropped.
DaemonPanic(p) ==
    /\ daemon[p].pc \in AfterWrite
    /\ pid_file' = PidFileGuard_drop(pid_file)
    /\ daemon' = [daemon EXCEPT ![p].pc = "panicked"]
    /\ UNCHANGED <<executions, stop>>
    /\ DaemonUnchanged

\* The process is killed (SIGKILL, power loss): nothing is cleaned up.
DaemonKilled(p) ==
    /\ Live(p)
    /\ daemon' = [daemon EXCEPT ![p].pc = "killed"]
    /\ UNCHANGED <<pid_file, executions, stop>>
    /\ DaemonUnchanged

DaemonStep(p) ==
    \/ DaemonNew(p)
    \/ WritePidFile(p)
    \/ DaemonRecoverFromCrash(p)
    \/ CronStart(p)
    \/ SignalHandlers(p)
    \/ Signal(p)
    \/ DaemonShutdown(p)
    \/ DaemonPanic(p)
    \/ DaemonKilled(p)

-----------------------------------------------------------------------------
(* daemon.rs: `daemon stop` *)

\* check_daemon_running: Ok(None) without a file; Ok(Some(pid)) when kill(pid, 0)
\* finds the process; a file whose process is gone is removed, Ok(None).
check_daemon_running(file) ==
    IF file = NoFile THEN [file |-> file, pid |-> <<>>]
    ELSE IF Live(file) THEN [file |-> file, pid |-> <<file>>]
    ELSE [file |-> NoFile, pid |-> <<>>]

\* while pid_file.exists() && start.elapsed() < timeout, in sleeps of 100 ms
keeps_polling(file, polls) == file # NoFile /\ polls < MaxPolls

\* Mutant: a file that outlives the timeout is reported as an error.
stop_daemon_result_err_on_timeout(file) == IF file # NoFile THEN "err" ELSE "ok"

\* After the loop both branches only log; the function ends in Ok(()).
stop_daemon_result(file) == "ok"

\* let pid = check_daemon_running(pid_file)?.ok_or_else(.. "not running")?
StopCheck ==
    /\ stop.pc = "none"
    /\ LET r == check_daemon_running(pid_file)
       IN /\ pid_file' = r.file
          /\ stop' = IF r.pid = <<>>
                     THEN [stop EXCEPT !.pc = "returned", !.result = "err"]
                     ELSE [stop EXCEPT !.pc = "checked", !.pid = r.pid]
    /\ UNCHANGED <<daemon, executions>>
    /\ DaemonUnchanged

\* libc::kill(pid, SIGTERM): a process in its signal loop has the signal
\* pending; one whose handlers are not registered yet is terminated by the
\* signal; a process that is gone gets nothing.
StopKill ==
    /\ stop.pc = "checked"
    /\ LET pid == stop.pid[1]
       IN daemon' = IF daemon[pid].pc = "waiting"
                    THEN [daemon EXCEPT ![pid].signalled = TRUE]
                    ELSE IF Live(pid)
                    THEN [daemon EXCEPT ![pid].pc = "killed"]
                    ELSE daemon
    /\ stop' = [stop EXCEPT !.pc = "polling", !.sent = stop.pid]
    /\ UNCHANGED <<pid_file, executions>>
    /\ DaemonUnchanged

\* One turn of the wait loop, or its end and the return.
StopPoll ==
    /\ stop.pc = "polling"
    /\ stop' = IF keeps_polling(pid_file, stop.polls)
               THEN [stop EXCEPT !.polls = @ + 1]
               ELSE [stop EXCEPT !.pc = "returned",
                                 !.clean = (pid_file = NoFile),
                                 !.result = stop_daemon_result(pid_file)]
    /\ UNCHANGED <<pid_file, daemon, executions>>
    /\ DaemonUnchanged

StopDaemon == StopCheck \/ StopKill \/ StopPoll

NextDaemon ==
    \/ \E p \in Pids : DaemonStep(p)
    \/ StopDaemon

SpecDaemon == InitDaemon /\ [][NextDaemon]_vars

\* stop_daemon is a sequential function in a process of its own: it keeps
\* taking its steps.
SpecDaemonFair == SpecDaemon /\ WF_vars(StopDaemon)

\* C20: a daemon start is refused exactly when the PID file exists and names
\* a running process; a start that finds the file of a process that is gone
\* is not refused.
C20_RefusedExactlyWhenOwnerLive ==
    \A p \in Pids :
        daemon[p].pc # "none" =>
            ((daemon[p].pc = "refused") =
                 (daemon[p].found # NoFile /\ daemon[p].found_live))

\* C21: of the daemons started on one PID file at most one is running at any
\* time, and while a daemon runs the PID file exists and holds its PID.
C21_OneDaemonOwnsPidFile ==
    /\ Cardinality({p \in Pids : daemon[p].pc \in AfterWrite}) <= 1
    /\ \A p \in Pids : daemon[p].pc \in AfterWrite => pid_file = p

StopReturned == stop.pc = "returned" /\ stop.pid # <<>>

\* C24: stop_daemon that finds a live daemon sends SIGTERM to the PID of the
\* file, returns only when the file is gone or the timeout has passed,
\* returns Ok in both cases, and always returns.
C24_StopDaemonReturnsOk ==
    /\ [](StopReturned =>
            /\ stop.sent = stop.pid
            /\ stop.result = "ok"
            /\ (stop.clean \/ stop.polls = MaxPolls))
    /\ ((stop.pc = "checked") ~> (stop.pc = "returned"))

\* stop_daemon returned Ok after the timeout, with the PID file still there.
C24_Witness ==
    /\ StopReturned
    /\ stop.result = "ok"
    /\ ~stop.clean
    /\ stop.polls = MaxPolls
    /\ pid_file = stop.pid[1]

-----------------------------------------------------------------------------
(* daemon.rs and cron_scheduler.rs: the daemons with their cron triggers   *)

\* Mutant: the cron runtime runs from the moment the PID file is written.
cron_running_before_start(p) == daemon[p].pc \in AfterWrite

\* The cron runtime of process p was started by cron_scheduler.start() and
\* not shut down: its jobs fire.
cron_running(p) == daemon[p].pc \in {"started", "waiting"}

\* The runs of cron jobs, in trigger order.
JobRuns == DOMAIN jobs

\* A cron trigger in process p: the job closure calls execute_workflow, which
\* creates the execution row.
CronTrigger(p) ==
    /\ cron_running(p)
    /\ Len(executions) < MaxExecutions
    /\ executions' = start_execution(executions, 1)
    /\ jobs' = Append(jobs, [owner |-> p, execution_id |-> Len(executions) + 1,
                             pc |-> "running"])
    /\ UNCHANGED <<pid_file, daemon, stop, commands, config, workflows,
                   task_executions, pc, ret, workflow_id, execution_id, cursor,
                   workflow_success, failed_tasks, act, permits, store_errors,
                   slept, outcomes>>

\* execute_workflow of job run j comes to its update_execution_status while
\* its process is there.
CronJobEnds(j) ==
    /\ jobs[j].pc = "running"
    /\ cron_running(jobs[j].owner)
    /\ \E status \in {"success", "failed"} :
          executions' = update_execution_status(executions, jobs[j].execution_id,
                                                status)
    /\ jobs' = [jobs EXCEPT ![j].pc = "done"]
    /\ UNCHANGED <<pid_file, daemon, stop, commands, config, workflows,
                   task_executions, pc, ret, workflow_id, execution_id, cursor,
                   workflow_success, failed_tasks, act, permits, store_errors,
                   slept, outcomes>>

\* The processes `daemon start` is run in here.
CronDaemons == {"p1", "p2"}

NextDaemonCron ==
    \/ \E p \in CronDaemons : DaemonStep(p)
    \/ \E p \in CronDaemons : CronTrigger(p)
    \/ \E j \in JobRuns : CronJobEnds(j)

SpecDaemonCron == InitDaemon /\ [][NextDaemonCron]_vars

\* The job runs of process p.
JobsOf(js, p) == {j \in DOMAIN js : js[j].owner = p}

\* C37: a process comes to the recover_from_crash of Daemon::run once, from
\* its write of the PID file; when it runs, no cron job of this process has
\* been triggered, so no execution whose status it changes is one of this
\* process; and a cron job of a process is triggered only after its
\* recover_from_crash has completed and its cron runtime was started.
C37_RecoveryBeforeCron ==
    [][\A p \in Pids :
          /\ (daemon'[p].pc = "written" /\ daemon[p].pc # "written") =>
                 daemon[p].pc = "new"
          /\ (daemon'[p].pc = "new" /\ daemon[p].pc # "new") =>
                 daemon[p].pc = "none"
          /\ daemon'[p].pc = "none" => daemon[p].pc = "none"
          /\ (daemon[p].pc = "written" /\ daemon'[p].pc # "written") =>
                 /\ JobsOf(jobs, p) = {}
                 /\ \A j \in JobsOf(jobs', p) :
                       executions'[jobs'[j].execution_id] =
                           executions[jobs'[j].execution_id]
          /\ JobsOf(jobs', p) # JobsOf(jobs, p) =>
                 daemon[p].pc \in {"started", "waiting"}]_vars

\* p1 was killed while its cron job ran; the start-up recovery of p2 marked
\* that execution failed, and the execution of p2's own cron job, triggered
\* later, is running.
C37_Witness ==
    /\ Len(jobs) = 2
    /\ jobs[1].owner = "p1" /\ jobs[1].pc = "running"
    /\ daemon["p1"].pc = "killed"
    /\ executions[1].status = "failed"
    /\ jobs[2].owner = "p2" /\ jobs[2].pc = "running"
    /\ daemon["p2"].pc = "waiting"
    /\ executions[2].status = "running"

-----------------------------------------------------------------------------
(* cron_scheduler.rs: CronScheduler::add_workflow *)

MaxJobs == 3

\* workflow.schedule: none, a string that is no cron expression, or one of
\* two cron expressions.
CronSchedules == {None, "invalid cron", "0 0 2 * * *", "0 */5 * * * *"}

\* Job::new_async(schedule, ..) accepts the string.
ValidCron(schedule) == schedule \in {"0 0 2 * * *", "0 */5 * * * *"}

\* Mutant: a workflow without a schedule is passed over with Ok.
add_workflow_skips_unscheduled(js, name, schedule, added) ==
    IF schedule = None THEN [jobs |-> js, kind |-> "ok"]
    ELSE IF ~ValidCron(schedule) THEN [jobs |-> js, kind |-> "validation"]
    ELSE IF ~added THEN [jobs |-> js, kind |-> "other"]
    ELSE [jobs |-> Append(js, [name |-> name, schedule |-> schedule]),
          kind |-> "ok"]

\* add_workflow: schedule.ok_or_else(Validation)?, Job::new_async(..)
\* .map_err(Validation)?, scheduler.add(job).map_err(Other)?, Ok(()).
\* `added` is whether the JobScheduler took the job.
add_workflow(js, name, schedule, added) ==
    IF schedule = None THEN [jobs |-> js, kind |-> "validation"]
    ELSE IF ~ValidCron(schedule) THEN [jobs |-> js, kind |-> "validation"]
    ELSE IF ~added THEN [jobs |-> js, kind |-> "other"]
    ELSE [jobs |-> Append(js, [name |-> name, schedule |-> schedule]),
          kind |-> "ok"]

InitCron ==
    /\ config = [op |-> None, name |-> None, schedule |-> None]
    /\ pc = "cron"
    /\ ret = [kind |-> None, ids |-> {}]
    /\ workflows = <<>>
    /\ executions = <<>>
    /\ task_executions = [t \in TaskNames |-> <<>>]
    /\ workflow_id = 0
    /\ execution_id = 0
    /\ cursor = 0
    /\ workflow_success = TRUE
    /\ failed_tasks = {}
    /\ act = [t \in TaskNames |-> Idle]
    /\ permits = 0
    /\ store_errors = 0
    /\ slept = [t \in TaskNames |-> <<>>]
    /\ outcomes = [t \in TaskNames |-> <<>>]
    /\ pid_file = NoFile
    /\ daemon = [p \in Pids |-> NotStarted]
    /\ stop = NotStopping
    /\ jobs = <<>>
    /\ commands = [c \in Commands |-> NotRun]

CronUnchanged ==
    UNCHANGED <<workflows, executions, task_executions, workflow_id,
                execution_id, cursor, workflow_success, failed_tasks, act,
                permits, store_errors, slept, outcomes, pid_file, daemon, stop,
                commands>>

\* scheduler.add_workflow(workflow) for a workflow of this name and schedule
CronAddWorkflow(name, schedule) ==
    /\ Len(jobs) < MaxJobs
    /\ pc' = "add_workflow"
    /\ config' = [op |-> "add_workflow", name |-> name, schedule |-> schedule]
    /\ \E added \in BOOLEAN :
          LET r == add_workflow(jobs, name, schedule, added)
          IN /\ jobs' = r.jobs
             /\ ret' = [kind |-> r.kind, ids |-> {}]
    /\ CronUnchanged

NextCron ==
    \E name \in WorkflowNames : \E schedule \in CronSchedules :
        CronAddWorkflow(name, schedule)

SpecCron == InitCron /\ [][NextCron]_vars

\* C25: add_workflow returns a Validation error and registers no job for a
\* workflow without a schedule or with a schedule that is no cron
\* expression; for a valid schedule a call that returns Ok has registered
\* exactly one job, that of the workflow, and a call that returns an error
\* has registered none.
C25_AddWorkflowValidates ==
    [][LET s == config'.schedule
       IN /\ (s = None \/ ~ValidCron(s)) =>
                 (ret'.kind = "validation" /\ jobs' = jobs)
          /\ (ValidCron(s) /\ ret'.kind = "ok") =>
                 jobs' = Append(jobs, [name |-> config'.name, schedule |-> s])
          /\ (ValidCron(s) /\ ret'.kind # "ok") => jobs' = jobs]_vars

\* A job was registered for a valid schedule, and a later call with a string
\* that is no cron expression came back with Validation and left that job.
C25_Witness ==
    /\ pc = "add_workflow"
    /\ config.schedule = "invalid cron"
    /\ ret.kind = "validation"
    /\ jobs = <<[name |-> "wf", schedule |-> "0 0 2 * * *"]>>

-----------------------------------------------------------------------------
(* executors/mod.rs: truncate_output_bytes *)

\* models.rs sets MAX_OUTPUT_SIZE to 10_485_760; the model counts in bytes
\* too, with a limit of a few bytes.
MAX_OUTPUT_SIZE == 3

\* The bytes of the raw output: 'x', the first byte of a two-byte character
\* (0xC3), a continuation byte (0xA9), and a byte no UTF-8 text holds (0xFF).
Bytes == {120, 195, 169, 255}

\* U+FFFD REPLACEMENT CHARACTER in UTF-8
Replacement == <<239, 191, 189>>

\* String::from_utf8_lossy: valid sequences are kept, every byte that is part
\* of none is replaced by U+FFFD.
RECURSIVE from_utf8_lossy(_)
from_utf8_lossy(bytes) ==
    IF bytes = <<>> THEN <<>>
    ELSE LET b == Head(bytes)
         IN IF b < 128 THEN <<b>> \o from_utf8_lossy(Tail(bytes))
            ELSE IF b = 195 /\ Len(bytes) >= 2 /\ bytes[2] \in 128..191
            THEN <<b, bytes[2]>> \o from_utf8_lossy(Tail(Tail(bytes)))
            ELSE Replacement \o from_utf8_lossy(Tail(bytes))

\* truncate_output_bytes(data): the first MAX_OUTPUT_SIZE bytes when there are
\* more, converted with from_utf8_lossy, and whether bytes were cut off.
truncate_output_bytes(data) ==
    LET truncated == Len(data) > MAX_OUTPUT_SIZE
        bytes == IF truncated THEN SubSeq(data, 1, MAX_OUTPUT_SIZE) ELSE data
    IN [output |-> from_utf8_lossy(bytes), truncated |-> truncated]

\* The raw outputs: every byte string up to two bytes over the limit.
RawOutputs == UNION {[1..n -> Bytes] : n \in 0..(MAX_OUTPUT_SIZE + 2)}

InitOutput ==
    /\ \E data \in RawOutputs : config = [op |-> None, data |-> data]
    /\ pc = "output"
    /\ ret = [kind |-> None]
    /\ workflows = <<>>
    /\ executions = <<>>
    /\ task_executions = [t \in TaskNames |-> <<>>]
    /\ workflow_id = 0
    /\ execution_id = 0
    /\ cursor = 0
    /\ workflow_success = TRUE
    /\ failed_tasks = {}
    /\ act = [t \in TaskNames |-> Idle]
    /\ permits = 0
    /\ store_errors = 0
    /\ slept = [t \in TaskNames |-> <<>>]
    /\ outcomes = [t \in TaskNames |-> <<>>]
    /\ pid_file = NoFile
    /\ daemon = [p \in Pids |-> NotStarted]
    /\ stop = NotStopping
    /\ jobs = <<>>
    /\ commands = [c \in Commands |-> NotRun]

\* let (stdout, stdout_truncated) = truncate_output_bytes(&output.stdout)
TruncateOutputBytes ==
    /\ pc = "output"
    /\ pc' = "truncated"
    /\ LET r == truncate_output_bytes(config.data)
       IN ret' = [kind |-> "output", output |-> r.output,
                  truncated |-> r.truncated]
    /\ UNCHANGED <<config, workflows, executions, task_executions,
                   workflow_id, execution_id, cursor, workflow_success,
                   failed_tasks, act, permits, store_errors, slept, outcomes,
                   daemon_vars>>

NextOutput == TruncateOutputBytes

SpecOutput == InitOutput /\ [][NextOutput]_vars

\* C26: the captured string is at most MAX_OUTPUT_SIZE bytes long; when the
\* raw output was longer, the flag is set and the string is exactly
\* MAX_OUTPUT_SIZE bytes long; otherwise the flag is not set.
C26_OutputWithinLimit ==
    pc = "truncated" =>
        /\ Len(ret.output) <= MAX_OUTPUT_SIZE
        /\ Len(config.data) > MAX_OUTPUT_SIZE =>
               (ret.truncated /\ Len(ret.output) = MAX_OUTPUT_SIZE)
        /\ Len(config.data) <= MAX_OUTPUT_SIZE => ~ret.truncated

-----------------------------------------------------------------------------
(* state.rs: list_workflows over a store that is written to *)

\* The executions of workflow row w: the rows the LEFT JOIN pairs with it.
ExecutionsOf(execs, w) == {e \in DOMAIN execs : execs[e].workflow_id = w}

\* MAX(e.started_at): rows are inserted with the time of the insert, so the
\* latest start is that of the row with the largest id; NULL without a row.
last_execution(execs, w) ==
    IF ExecutionsOf(execs, w) = {} THEN <<>>
    ELSE <<SetMax(ExecutionsOf(execs, w))>>

\* Mutant: failed_count leaves out the executions that timed out.
workflow_summary_failed_only(wfs, execs, w) ==
    [name |-> wfs[w].name,
     schedule |-> wfs[w].schedule,
     execution_count |-> Cardinality(ExecutionsOf(execs, w)),
     success_count |->
         Cardinality({e \in ExecutionsOf(execs, w) : execs[e].status = "success"}),
     failed_count |->
         Cardinality({e \in ExecutionsOf(execs, w) : execs[e].status = "failed"}),
     last_execution |-> last_execution(execs, w)]

\* The row of the GROUP BY for workflow row w: COUNT(e.id) and the two SUMs
\* of CASE .. THEN 1 ELSE 0 over the joined rows.
workflow_summary(wfs, execs, w) ==
    [name |-> wfs[w].name,
     schedule |-> wfs[w].schedule,
     execution_count |-> Cardinality(ExecutionsOf(execs, w)),
     success_count |->
         Cardinality({e \in ExecutionsOf(execs, w) : execs[e].status = "success"}),
     failed_count |->
         Cardinality({e \in ExecutionsOf(execs, w) :
                         execs[e].status \in {"failed", "timeout"}}),
     last_execution |-> last_execution(execs, w)]

\* ORDER BY last_execution DESC NULLS LAST: the orders of the workflow rows
\* the query may return them in; rows without an execution come last, in any
\* order.
SummaryOrders(wfs, execs) ==
    LET n == Len(wfs)
        key(w) == IF ExecutionsOf(execs, w) = {} THEN 0
                  ELSE SetMax(ExecutionsOf(execs, w))
    IN {o \in [1..n -> 1..n] :
           /\ \A i, j \in 1..n : i # j => o[i] # o[j]
           /\ \A i, j \in 1..n : i < j => key(o[i]) >= key(o[j])}

\* list_workflows: one WorkflowSummary per row of the query, in its order.
list_workflows(wfs, execs, order) ==
    [i \in 1..Len(wfs) |-> workflow_summary(wfs, execs, order[i])]

\* manager.list_workflows()
ListWorkflows ==
    /\ pc' = "list_workflows"
    /\ config' = [op |-> "list_workflows"]
    /\ \E ok \in WriteResults :
          IF ok
          THEN /\ store_errors' = store_errors
               /\ \E order \in SummaryOrders(workflows, executions) :
                     ret' = [kind |-> "ok", ids |-> {},
                             summaries |-> list_workflows(workflows, executions, order)]
          ELSE StoreError
    /\ UNCHANGED <<workflows, executions, task_executions>>
    /\ StoreUnchanged

NextSummaries ==
    \/ \E name \in WorkflowNames : \E schedule \in {None, "s1"} :
          GetOrCreateWorkflowCall(name, schedule)
    \/ StoreStartExecution
    \/ StoreUpdateExecutionStatus
    \/ ListWorkflows

SpecSummaries == InitWorkflows /\ [][NextSummaries]_vars

\* The number of executions of the workflow named name with a status in S.
CountOf(name, S) ==
    Cardinality({e \in DOMAIN executions :
                    /\ workflows[executions[e].workflow_id].name = name
                    /\ executions[e].status \in S})

\* C28: list_workflows changes no row; when it returns Ok, its result has one
\* entry per workflow row, and the entry of a workflow carries the number of
\* its executions, of those with status success, and of those with status
\* failed or timeout, and no last-execution time exactly when there is none.
C28_ListWorkflowsProjection ==
    [][pc' = "list_workflows" =>
          /\ workflows' = workflows
          /\ executions' = executions
          /\ task_executions' = task_executions
          /\ ret'.kind = "ok" =>
                /\ Len(ret'.summaries) = Len(workflows)
                /\ \A w \in DOMAIN workflows :
                      \E i \in DOMAIN ret'.summaries :
                          LET s == ret'.summaries[i]
                          IN /\ s.name = workflows[w].name
                             /\ s.execution_count = CountOf(s.name, ExecutionStatuses)
                             /\ s.success_count = CountOf(s.name, {"success"})
                             /\ s.failed_count = CountOf(s.name, {"failed", "timeout"})
                             /\ (s.last_execution = <<>>) = (s.execution_count = 0)]_vars

\* list_workflows returned two entries: a workflow with a timed out and a
\* successful execution, and a workflow without executions.
C28_Witness ==
    /\ pc = "list_workflows"
    /\ ret.kind = "ok"
    /\ Len(ret.summaries) = 2
    /\ ret.summaries[1].execution_count = 2
    /\ ret.summaries[1].success_count = 1
    /\ ret.summaries[1].failed_count = 1
    /\ \E e \in DOMAIN executions : executions[e].status = "timeout"
    /\ ret.summaries[2].execution_count = 0
    /\ ret.summaries[2].failed_count = 0
    /\ ret.summaries[2].last_execution = <<>>

-----------------------------------------------------------------------------
(* cli.rs: `run` commands in several processes on one store *)

InitRuns ==
    /\ config = [name |-> "wf", schedule |-> None]
    /\ pc = "runs"
    /\ ret = [kind |-> None]
    /\ workflows = <<>>
    /\ executions = <<>>
    /\ task_executions = [t \in TaskNames |-> <<>>]
    /\ workflow_id = 0
    /\ execution_id = 0
    /\ cursor = 0
    /\ workflow_success = TRUE
    /\ failed_tasks = {}
    /\ act = [t \in TaskNames |-> Idle]
    /\ permits = 0
    /\ store_errors = 0
    /\ slept = [t \in TaskNames |-> <<>>]
    /\ outcomes = [t \in TaskNames |-> <<>>]
    /\ pid_file = NoFile
    /\ daemon = [p \in Pids |-> NotStarted]
    /\ stop = NotStopping
    /\ jobs = <<>>
    /\ commands = [c \in Commands |-> NotRun]

RunsUnchanged ==
    UNCHANGED <<config, task_executions, pc, ret, workflow_id, execution_id,
                cursor, workflow_success, failed_tasks, act, permits, slept,
                outcomes, pid_file, daemon, stop, jobs>>

\* The command ends on the error of a store call.
CommandFails(c) ==
    /\ store_errors' = store_errors + 1
    /\ commands' = [commands EXCEPT ![c].pc = "failed"]

\* recover_from_crash in command c, its SELECT: the ids of the executions
\* that are running now.
RunRecoverSelect(c) ==
    /\ commands[c].pc = "none"
    /\ \E ok \in WriteResults :
          IF ok
          THEN /\ commands' = [commands EXCEPT ![c].pc = "selected",
                                               ![c].crashed = crashed_ids(executions)]
               /\ store_errors' = store_errors
          ELSE CommandFails(c)
    /\ UNCHANGED <<workflows, executions>>
    /\ RunsUnchanged

\* recover_from_crash in command c, its UPDATEs .. WHERE id = ?, one for each
\* selected id; when one fails the rows updated before it stay failed.
RunRecoverUpdate(c) ==
    /\ commands[c].pc = "selected"
    /\ \E ok \in WriteResults :
          IF ok
          THEN /\ executions' = mark_failed(executions, commands[c].crashed)
               /\ commands' = [commands EXCEPT ![c].pc = "recovered"]
               /\ store_errors' = store_errors
          ELSE /\ \E done \in SUBSET commands[c].crashed :
                     /\ done = commands[c].crashed => done = {}
                     /\ executions' = mark_failed(executions, done)
               /\ CommandFails(c)
    /\ UNCHANGED workflows
    /\ RunsUnchanged

\* execute_workflow in command c: get_or_create_workflow(name, schedule)
RunGetOrCreateWorkflow(c) ==
    /\ commands[c].pc = "recovered"
    /\ \E ok \in WriteResults :
          IF ok
          THEN LET r == get_or_create_workflow(workflows, config.name, config.schedule)
               IN /\ workflows' = r.table
                  /\ commands' = [commands EXCEPT ![c].pc = "workflow",
                                                  ![c].workflow_id = r.id]
                  /\ store_errors' = store_errors
          ELSE CommandFails(c) /\ UNCHANGED workflows
    /\ UNCHANGED executions
    /\ RunsUnchanged

\* execute_workflow in command c: start_execution(workflow_id)
RunStartExecution(c) ==
    /\ commands[c].pc = "workflow"
    /\ \E ok \in WriteResults :
          IF ok
          THEN /\ executions' = start_execution(executions, commands[c].workflow_id)
               /\ commands' = [commands EXCEPT ![c].pc = "running",
                                               ![c].execution_id = Len(executions) + 1]
               /\ store_errors' = store_errors
          ELSE CommandFails(c) /\ UNCHANGED executions
    /\ UNCHANGED workflows
    /\ RunsUnchanged

\* execute_workflow in command c, from the tasks to its end: the tasks write
\* no execution row; then update_execution_status(execution_id, final_status)
\* with success or failed. An error of a task's store call or of this call
\* ends the command with the row as it is.
RunUpdateExecutionStatus(c) ==
    /\ commands[c].pc = "running"
    /\ \E ok \in WriteResults :
          IF ok
          THEN \E final_status \in {"success", "failed"} :
                  /\ executions' = update_execution_status(
                                       executions, commands[c].execution_id, final_status)
                  /\ commands' = [commands EXCEPT ![c].pc = "done"]
                  /\ store_errors' = store_errors
          ELSE CommandFails(c) /\ UNCHANGED executions
    /\ UNCHANGED workflows
    /\ RunsUnchanged

RunCommand(c) ==
    \/ RunRecoverSelect(c)
    \/ RunRecoverUpdate(c)
    \/ RunGetOrCreateWorkflow(c)
    \/ RunStartExecution(c)
    \/ RunUpdateExecutionStatus(c)

NextRuns == \E c \in Commands : RunCommand(c)

SpecRuns == InitRuns /\ [][NextRuns]_vars

\* C30: the status of an execution row changes only from running to success,
\* failed or timeout; a row that holds one of these keeps it, however the
\* runs and the recover_from_crash calls on the store interleave.
C30_TerminalExecutionStatusIsFinal ==
    [][\A e \in DOMAIN executions :
          executions'[e].status # executions[e].status =>
              /\ executions[e].status = "running"
              /\ executions'[e].status \in Terminal]_vars

====
